---- MODULE Spec2Model ----
(***************************************************************************)
(* A model of the Py_Exporter collectors: the counter guard of             *)
(* CpuCollector and NetworkCollector (src/collector/cpu, .../network), the *)
(* statvfs probe pool and stuck-mount registry of FilesysCollector         *)
(* (src/collector/filesys), and the collectors that publish what they read *)
(* (src/collector/disk, .../memory).                                       *)
(*                                                                         *)
(* Every collect() is cut at the points where another thread can observe   *)
(* or change shared state: file reads, lock acquire/release, pool submit,  *)
(* future.result.  Values the kernel hands in (counter readings, probe     *)
(* outcomes, elapsed time) are chosen nondeterministically.                *)
(***************************************************************************)
EXTENDS Integers, Sequences, FiniteSets, TLC

\* Python's None (dict.get of a missing key); every modelled reading is >= 0.
None == -1

\* Largest raw counter reading the kernel files hand in.
MaxVal == 2

\* Scrape requests that may overlap on one collector instance.
Threads == {"t1", "t2"}

\* The collectors prometheus_client's REGISTRY may hold.
Collectors == {"cpu", "network", "filesys", "disk", "memory"}

Values == 0..MaxVal

Max(a, b) == IF a >= b THEN a ELSE b

(***************************************************************************)
(* CpuCollector                                                            *)
(***************************************************************************)

\* The modes of CPU_MODES the model reads (the first column of a cpu line).
CPU_MODES == <<"user">>

\* The cpuN lines /proc/stat may hold.
Cpus == <<"0", "1">>

\* Keys of `current` in insertion order: file order, then column order.
CpuKeyOrder == <<<<"0", "user">>, <<"1", "user">>>>

CpuKeys == {CpuKeyOrder[i] : i \in 1..Len(CpuKeyOrder)}

VARIABLES
    registered,       \* collectors registered with REGISTRY
    cpu_last_stats,   \* CpuCollector._last_stats: key -> value or None
    cpu_lock,         \* CpuCollector._lock: holder or "free"
    cpu_pc,           \* per scrape: position inside CpuCollector.collect
    cpu_current,      \* per scrape: the dict `current` (None: key absent)
    cpu_todo,         \* per scrape: keys `for key, value in current.items()` still has to visit
    cpu_metric,       \* per scrape: samples added to node_cpu_seconds_total
    cpu_exposed,      \* history: value last added to the family for each key
    cpu_raw,          \* history: raw value of each key in the last guard pass that saw it
    cpu_prev_raw,     \* history: raw value of each key in the guard pass before that one
    cpu_max           \* history: largest raw value of each key any guard pass has seen

cpuVars == <<cpu_last_stats, cpu_lock, cpu_pc, cpu_current, cpu_todo, cpu_metric,
             cpu_exposed, cpu_raw, cpu_prev_raw, cpu_max>>

VARIABLES
    clock,            \* time.time()
    stuck_mounts,     \* module-level dict: mountpoint -> time of its last timeout, or None
    stuck_lock,       \* module-level lock: holder or "free"
    fs_pc,            \* per scrape: position inside FilesysCollector.collect
    fs_mounts,        \* per scrape: `mounts`
    fs_now,           \* per scrape: `now`
    fs_idx,           \* per scrape: index of the running for loop
    fs_futures,       \* per scrape: `futures` in insertion order, with each probe's state
    fs_deadline,      \* per scrape: when the pending future.result(timeout) gives up
    fs_results,       \* per scrape: how each future was resolved (try / except branch taken)
    fs_device_error,  \* per scrape: samples of node_filesystem_device_error
    fs_size,          \* per scrape: mounts with size/free/avail/files/files_free/readonly samples
    fs_seen,          \* history: stuck_mounts as it was when the scrape read `now`
    fs_phase,         \* history: [from, to] of the result loop, None while open
    fs_started,       \* history: scrapes started so far
    fs_errored        \* history: mounts whose latest awaited call had ended by raising

fsVars == <<clock, stuck_mounts, stuck_lock, fs_pc, fs_mounts, fs_now, fs_idx, fs_futures,
            fs_deadline, fs_results, fs_device_error, fs_size, fs_seen, fs_phase, fs_started,
            fs_errored>>

VARIABLES
    net_last_stats,   \* NetworkCollector._last_stats: (device, field) -> value or None
    net_last_carrier, \* NetworkCollector._last_carrier: device -> carrier or None
    net_lock,         \* NetworkCollector._lock: holder or "free"
    net_pc,           \* per scrape: position inside NetworkCollector.collect
    net_current,      \* per scrape: the dict `current` (None: key absent)
    net_devices,      \* per scrape: the set `devices`
    net_metric,       \* per scrape: samples added to the families, as [family, device, value]
    net_exposed,      \* history: value last added to a counter family for each key
    net_raw,          \* history: raw value of each counter key in the last guard pass over it
    net_before,       \* history: _last_stats of each counter key as that pass found it
    net_flips         \* history: per device, the passes whose carrier differed from the pass before

netVars == <<net_last_stats, net_last_carrier, net_lock, net_pc, net_current, net_devices,
             net_metric, net_exposed, net_raw, net_before, net_flips>>

VARIABLES
    builtin_timeout   \* whether concurrent.futures.TimeoutError is the builtin TimeoutError
                      \* (it is from Python 3.11 on, and a class of its own before)

VARIABLES
    disk_pc,          \* per scrape: position inside DiskIOCollector.collect
    disk_stats,       \* per scrape: the list read_diskstats() returned
    disk_metric,      \* per scrape: samples added to the families, as [family, device, value]
    disk_exposed      \* history: value last yielded in node_disk_read_bytes_total for the device

diskVars == <<disk_pc, disk_stats, disk_metric, disk_exposed>>

VARIABLES
    mem_last_stats,   \* MemCollector._last_stats: metric name -> value or None
    mem_lock,         \* MemCollector._lock: holder or "free"
    mem_pc,           \* per scrape: position inside MemCollector.collect
    mem_current,      \* per scrape: the dict `current` (None: key absent)
    mem_metric        \* per scrape: samples added to the families, as [family, value]

memVars == <<mem_last_stats, mem_lock, mem_pc, mem_current, mem_metric>>

VARIABLES
    http_pc,          \* CombinedHTTPHandler.do_GET: position inside the handler
    http_request,     \* self.path of the request, as [path, query]
    http_meminfo,     \* the dict read_meminfo() returned, as a list of [key, value]
    http_net_err,     \* whether get_net_dev_stats returned an error
    http_network,     \* the string network_module.generate_prometheus_metrics() returned
    http_metrics,     \* the string `metrics`, as a list of lines
    http_wire,        \* what the handler sent: status lines and bodies, in order
    http_raised       \* whether an exception left do_GET

httpVars == <<http_pc, http_request, http_meminfo, http_net_err, http_network,
              http_metrics, http_wire, http_raised>>

\* What is fixed when the process starts.
env == <<registered, builtin_timeout>>

vars == <<env, cpuVars, fsVars, netVars, diskVars, memVars, httpVars>>

notCpu == <<env, fsVars, netVars, diskVars, memVars, httpVars>>

notFs == <<env, cpuVars, netVars, diskVars, memVars, httpVars>>

notNet == <<env, cpuVars, fsVars, diskVars, memVars, httpVars>>

notDisk == <<env, cpuVars, fsVars, netVars, memVars, httpVars>>

notMem == <<env, cpuVars, fsVars, netVars, diskVars, httpVars>>

notHttp == <<env, cpuVars, fsVars, netVars, diskVars, memVars>>

fsLocal == <<fs_mounts, fs_now, fs_idx, fs_futures, fs_deadline, fs_results,
             fs_device_error, fs_size, fs_seen, fs_phase>>

\* The keys of a parsed sample, in iteration order.
RECURSIVE KeysOf(_, _)
KeysOf(cur, order) ==
    IF order = <<>> THEN <<>>
    ELSE IF cur[Head(order)] # None
         THEN <<Head(order)>> \o KeysOf(cur, Tail(order))
         ELSE KeysOf(cur, Tail(order))

\* Samples /proc/stat can parse to: each cpu line present or not, any reading.
CpuSamples == [CpuKeys -> Values \cup {None}]

\* `if last is None or value >= last` (the guard's test).
CpuAdvances(last, value) == last = None \/ value >= last

CpuPublished_Raw(last, value) == value

CpuPublished_Stale(last, value) == IF last = None THEN value ELSE last

\* The value handed to metric.add_metric in either branch.
CpuPublished(last, value) == IF CpuAdvances(last, value) THEN value ELSE last

CpuStored_Always(last, value) == value

\* The value _last_stats[key] holds after the pass over the key.
CpuStored(last, value) == IF CpuAdvances(last, value) THEN value ELSE last

CpuInit ==
    /\ cpu_last_stats = [k \in CpuKeys |-> None]
    /\ cpu_lock = "free"
    /\ cpu_pc = [t \in Threads |-> "idle"]
    /\ cpu_current = [t \in Threads |-> [k \in CpuKeys |-> None]]
    /\ cpu_todo = [t \in Threads |-> <<>>]
    /\ cpu_metric = [t \in Threads |-> <<>>]
    /\ cpu_exposed = [k \in CpuKeys |-> None]
    /\ cpu_raw = [k \in CpuKeys |-> None]
    /\ cpu_prev_raw = [k \in CpuKeys |-> None]
    /\ cpu_max = [k \in CpuKeys |-> None]

\* collect() up to the end of `with open("/proc/stat")`: current is parsed.
CpuRead(t) ==
    /\ "cpu" \in registered
    /\ cpu_pc[t] = "idle"
    /\ \E s \in CpuSamples :
          cpu_current' = [cpu_current EXCEPT ![t] = s]
    /\ cpu_pc' = [cpu_pc EXCEPT ![t] = "parsed"]
    /\ cpu_metric' = [cpu_metric EXCEPT ![t] = <<>>]
    /\ UNCHANGED <<cpu_last_stats, cpu_lock, cpu_todo, cpu_exposed, cpu_raw, cpu_prev_raw, cpu_max, notCpu>>

CpuAcquire_NoWait(t) ==
    /\ cpu_pc[t] = "parsed"
    /\ cpu_lock' = t
    /\ cpu_pc' = [cpu_pc EXCEPT ![t] = "locked"]
    /\ cpu_todo' = [cpu_todo EXCEPT ![t] = KeysOf(cpu_current[t], CpuKeyOrder)]
    /\ UNCHANGED <<cpu_last_stats, cpu_current, cpu_metric, cpu_exposed, cpu_raw, cpu_prev_raw, cpu_max, notCpu>>

CpuOpenFails_Resets(t) ==
    /\ "cpu" \in registered
    /\ cpu_pc[t] = "idle"
    /\ cpu_pc' = [cpu_pc EXCEPT ![t] = "raising"]
    /\ cpu_metric' = [cpu_metric EXCEPT ![t] = <<>>]
    /\ cpu_last_stats' = [k \in CpuKeys |-> None]
    /\ UNCHANGED <<cpu_lock, cpu_current, cpu_todo, cpu_exposed, cpu_raw, cpu_prev_raw, cpu_max, notCpu>>

\* open("/proc/stat") raises: the exception leaves collect().
CpuOpenFails(t) ==
    /\ "cpu" \in registered
    /\ cpu_pc[t] = "idle"
    /\ cpu_pc' = [cpu_pc EXCEPT ![t] = "raising"]
    /\ cpu_metric' = [cpu_metric EXCEPT ![t] = <<>>]
    /\ UNCHANGED <<cpu_last_stats, cpu_lock, cpu_current, cpu_todo, cpu_exposed, cpu_raw, cpu_prev_raw, cpu_max, notCpu>>

\* The exception reaches the caller of collect(): no family was yielded.
CpuRaised(t) ==
    /\ cpu_pc[t] = "raising"
    /\ cpu_pc' = [cpu_pc EXCEPT ![t] = "idle"]
    /\ UNCHANGED <<cpu_last_stats, cpu_lock, cpu_current, cpu_todo, cpu_metric, cpu_exposed, cpu_raw, cpu_prev_raw, cpu_max, notCpu>>

\* `with self._lock:` entered.
CpuAcquire(t) ==
    /\ cpu_pc[t] = "parsed"
    /\ cpu_lock = "free"
    /\ cpu_lock' = t
    /\ cpu_pc' = [cpu_pc EXCEPT ![t] = "locked"]
    /\ cpu_todo' = [cpu_todo EXCEPT ![t] = KeysOf(cpu_current[t], CpuKeyOrder)]
    /\ UNCHANGED <<cpu_last_stats, cpu_current, cpu_metric, cpu_exposed, cpu_raw, cpu_prev_raw, cpu_max, notCpu>>

\* One iteration of `for key, value in current.items()`.
CpuGuardStep(t) ==
    /\ cpu_pc[t] = "locked"
    /\ cpu_todo[t] # <<>>
    /\ LET key == Head(cpu_todo[t])
           value == cpu_current[t][key]
           last == cpu_last_stats[key]
           pub == CpuPublished(last, value)
       IN /\ cpu_metric' = [cpu_metric EXCEPT ![t] = Append(@, [key |-> key, value |-> pub])]
          /\ cpu_last_stats' = [cpu_last_stats EXCEPT ![key] = CpuStored(last, value)]
          /\ cpu_exposed' = [cpu_exposed EXCEPT ![key] = pub]
          /\ cpu_raw' = [cpu_raw EXCEPT ![key] = value]
          /\ cpu_prev_raw' = [cpu_prev_raw EXCEPT ![key] = cpu_raw[key]]
          /\ cpu_max' = [cpu_max EXCEPT ![key] = Max(@, value)]
    /\ cpu_todo' = [cpu_todo EXCEPT ![t] = Tail(@)]
    /\ UNCHANGED <<cpu_lock, cpu_pc, cpu_current, notCpu>>

\* The loop is over: the with block releases the lock.
CpuRelease(t) ==
    /\ cpu_pc[t] = "locked"
    /\ cpu_todo[t] = <<>>
    /\ cpu_lock' = "free"
    /\ cpu_pc' = [cpu_pc EXCEPT ![t] = "yield"]
    /\ UNCHANGED <<cpu_last_stats, cpu_current, cpu_todo, cpu_metric, cpu_exposed, cpu_raw, cpu_prev_raw, cpu_max, notCpu>>

\* `yield metric`: the family is handed to the registry and the scrape ends.
CpuYield(t) ==
    /\ cpu_pc[t] = "yield"
    /\ cpu_pc' = [cpu_pc EXCEPT ![t] = "idle"]
    /\ cpu_current' = [cpu_current EXCEPT ![t] = [k \in CpuKeys |-> None]]
    /\ UNCHANGED <<cpu_last_stats, cpu_lock, cpu_todo, cpu_metric, cpu_exposed, cpu_raw, cpu_prev_raw, cpu_max, notCpu>>

(***************************************************************************)
(* NetworkCollector                                                        *)
(***************************************************************************)

\* Interfaces /proc/net/dev and /sys/class/net may list.
Devices == {"eth0"}

\* The columns of NETWORK_COUNTER_FIELDS the model reads.
NETWORK_COUNTER_FIELDS == {"receive_bytes"}

\* The entries of gauge_metrics the model reads.
GaugeFields == {"carrier"}

CarrierFields == {"carrier_changes", "carrier_up_changes", "carrier_down_changes"}

\* Carrier flips a behaviour may count.
MaxChanges == 2

NetCounterKeys == Devices \X NETWORK_COUNTER_FIELDS

NetGaugeKeys == Devices \X GaugeFields

NetKeys == Devices \X (NETWORK_COUNTER_FIELDS \cup GaugeFields \cup CarrierFields)

\* dict.get(key, default) on a dict held as a function with None for absent keys.
Get(dict, key, default) == IF dict[key] = None THEN default ELSE dict[key]

\* What the two sources can parse to: a /proc/net/dev line per device or none,
\* a /sys/class/net directory per device or none.
NetSamples ==
    {c \in [NetCounterKeys \cup NetGaugeKeys -> Values \cup {None}] :
        \A k \in NetGaugeKeys : c[k] \in {None, 0, 1}}

\* `devices`: every device that had a line or a directory.
DevicesOf(cur) == {d \in Devices : \E k \in NetCounterKeys \cup NetGaugeKeys : k[1] = d /\ cur[k] # None}

\* `if last is None or value >= last` (counter loop).
NetAdvances(last, value) == last = None \/ value >= last

NetPublished_Raw(last, value) == value

NetPublished_Stale(last, value) == IF last = None THEN value ELSE last

\* The value handed to counter_metrics[field].add_metric in either branch.
NetPublished(last, value) == IF NetAdvances(last, value) THEN value ELSE last

\* The value _last_stats[key] holds after the counter loop visited the key.
NetStored(last, value) == IF NetAdvances(last, value) THEN value ELSE last

GaugePublished_Guarded(last, value) == IF last = None \/ value >= last THEN value ELSE last

\* The value handed to metric.add_metric in the gauge loop: `value` as read,
\* whatever _last_stats holds for the key.
GaugePublished(last, value) == value

\* Which branch of the carrier_changes block a device takes.
CarrierCase(last_carrier, current_carrier) ==
    IF last_carrier # None /\ current_carrier # last_carrier
    THEN IF current_carrier > last_carrier THEN "up" ELSE "down"
    ELSE IF last_carrier = None THEN "first" ELSE "same"

CarrierStored_DownUncounted(stats, d, field, case) ==
    CASE case = "first" -> 0
      [] case = "same" -> stats[<<d, field>>]
      [] case = "up" ->
            IF field \in {"carrier_changes", "carrier_up_changes"}
            THEN Get(stats, <<d, field>>, 0) + 1 ELSE stats[<<d, field>>]
      [] case = "down" ->
            IF field = "carrier_changes"
            THEN Get(stats, <<d, field>>, 0) + 1 ELSE stats[<<d, field>>]

\* _last_stats[(device, field)] for the three carrier counters after the block.
CarrierStored(stats, d, field, case) ==
    CASE case = "first" -> 0
      [] case = "same" -> stats[<<d, field>>]
      [] case = "up" ->
            IF field \in {"carrier_changes", "carrier_up_changes"}
            THEN Get(stats, <<d, field>>, 0) + 1 ELSE stats[<<d, field>>]
      [] case = "down" ->
            IF field \in {"carrier_changes", "carrier_down_changes"}
            THEN Get(stats, <<d, field>>, 0) + 1 ELSE stats[<<d, field>>]

\* The carrier counter families that get a sample for the device in each branch.
CarrierFamilies(case) ==
    CASE case = "up" -> {"carrier_changes", "carrier_up_changes"}
      [] case = "down" -> {"carrier_changes", "carrier_down_changes"}
      [] OTHER -> CarrierFields

NetInit ==
    /\ net_last_stats = [k \in NetKeys |-> None]
    /\ net_last_carrier = [d \in Devices |-> None]
    /\ net_lock = "free"
    /\ net_pc = [t \in Threads |-> "idle"]
    /\ net_current = [t \in Threads |-> [k \in NetCounterKeys \cup NetGaugeKeys |-> None]]
    /\ net_devices = [t \in Threads |-> {}]
    /\ net_metric = [t \in Threads |-> {}]
    /\ net_exposed = [k \in NetCounterKeys |-> None]
    /\ net_raw = [k \in NetCounterKeys |-> None]
    /\ net_before = [k \in NetCounterKeys |-> None]
    /\ net_flips = [d \in Devices |-> 0]

\* The bound on the carrier counters: the sample counts no carrier flip once
\* MaxChanges were counted.
WithinMaxChanges(s) ==
    \A d \in Devices :
        Get(net_last_stats, <<d, "carrier_changes">>, 0) >= MaxChanges
           => CarrierCase(net_last_carrier[d], Get(s, <<d, "carrier">>, 0)) \in {"first", "same"}

\* collect() up to the creation of the families: both sources are read.
\* A carrier flip is only read while fewer than MaxChanges were counted.
NetRead(t) ==
    /\ "network" \in registered
    /\ net_pc[t] = "idle"
    /\ \E s \in NetSamples :
          /\ WithinMaxChanges(s)
          /\ net_current' = [net_current EXCEPT ![t] = s]
          /\ net_devices' = [net_devices EXCEPT ![t] = DevicesOf(s)]
    /\ net_metric' = [net_metric EXCEPT ![t] = {}]
    /\ net_pc' = [net_pc EXCEPT ![t] = "parsed"]
    /\ UNCHANGED <<net_last_stats, net_last_carrier, net_lock, net_exposed, net_raw,
                   net_before, net_flips, notNet>>

\* open("/proc/net/dev") raises: the exception leaves collect().
NetOpenFails(t) ==
    /\ "network" \in registered
    /\ net_pc[t] = "idle"
    /\ net_metric' = [net_metric EXCEPT ![t] = {}]
    /\ net_pc' = [net_pc EXCEPT ![t] = "raising"]
    /\ UNCHANGED <<net_last_stats, net_last_carrier, net_lock, net_current, net_devices,
                   net_exposed, net_raw, net_before, net_flips, notNet>>

\* The exception reaches the caller of collect(): no family was yielded.
NetRaised(t) ==
    /\ net_pc[t] = "raising"
    /\ net_pc' = [net_pc EXCEPT ![t] = "idle"]
    /\ UNCHANGED <<net_last_stats, net_last_carrier, net_lock, net_current, net_devices,
                   net_metric, net_exposed, net_raw, net_before, net_flips, notNet>>

\* `with self._lock:` entered.  (A sample that went stale while the scrape
\* waited is held to the bound on the carrier counters as well.)
NetAcquire(t) ==
    /\ net_pc[t] = "parsed"
    /\ net_lock = "free"
    /\ WithinMaxChanges(net_current[t])
    /\ net_lock' = t
    /\ net_pc' = [net_pc EXCEPT ![t] = "locked"]
    /\ UNCHANGED <<net_last_stats, net_last_carrier, net_current, net_devices, net_metric,
                   net_exposed, net_raw, net_before, net_flips, notNet>>

\* The body of the with block (counter loop, gauge loop, carrier_changes block,
\* receive_nohandler, node_network_info) and the release of the lock.
NetLocked(t) ==
    /\ net_pc[t] = "locked"
    /\ LET cur == net_current[t]
           devs == net_devices[t]
           value(k) == Get(cur, k, 0)
           case(d) == CarrierCase(net_last_carrier[d], value(<<d, "carrier">>))
           stats == [k \in NetKeys |->
                       IF k[1] \notin devs THEN net_last_stats[k]
                       ELSE IF k[2] \in NETWORK_COUNTER_FIELDS
                            THEN NetStored(net_last_stats[k], value(k))
                       ELSE IF k[2] \in GaugeFields THEN value(k)
                       ELSE CarrierStored(net_last_stats, k[1], k[2], case(k[1]))]
       IN /\ net_last_stats' = stats
          /\ net_last_carrier' = [d \in Devices |->
                IF d \in devs THEN value(<<d, "carrier">>) ELSE net_last_carrier[d]]
          /\ net_metric' = [net_metric EXCEPT ![t] =
                {[family |-> k[2], device |-> k[1],
                  value |-> NetPublished(net_last_stats[k], value(k))] :
                     k \in {x \in NetCounterKeys : x[1] \in devs}}
                \cup {[family |-> k[2], device |-> k[1],
                       value |-> GaugePublished(net_last_stats[k], value(k))] :
                     k \in {x \in NetGaugeKeys : x[1] \in devs}}
                \cup {[family |-> k[2], device |-> k[1], value |-> Get(stats, k, 0)] :
                     k \in {x \in Devices \X CarrierFields :
                               x[1] \in devs /\ x[2] \in CarrierFamilies(case(x[1]))}}
                \cup {[family |-> "receive_nohandler", device |-> d, value |-> 0] : d \in devs}
                \cup {[family |-> "info", device |-> d, value |-> 1] : d \in devs}]
          /\ net_exposed' = [k \in NetCounterKeys |->
                IF k[1] \in devs THEN NetPublished(net_last_stats[k], value(k)) ELSE net_exposed[k]]
          /\ net_raw' = [k \in NetCounterKeys |-> IF k[1] \in devs THEN value(k) ELSE net_raw[k]]
          /\ net_before' = [k \in NetCounterKeys |->
                IF k[1] \in devs THEN net_last_stats[k] ELSE net_before[k]]
          /\ net_flips' = [d \in Devices |->
                IF /\ d \in devs
                   /\ net_last_carrier[d] # None
                   /\ value(<<d, "carrier">>) # net_last_carrier[d]
                THEN net_flips[d] + 1 ELSE net_flips[d]]
    /\ net_lock' = "free"
    /\ net_pc' = [net_pc EXCEPT ![t] = "yield"]
    /\ UNCHANGED <<net_current, net_devices, notNet>>

\* The `yield`s: the families are handed to the registry and the scrape ends.
NetYield(t) ==
    /\ net_pc[t] = "yield"
    /\ net_pc' = [net_pc EXCEPT ![t] = "idle"]
    /\ net_current' = [net_current EXCEPT ![t] = [k \in NetCounterKeys \cup NetGaugeKeys |-> None]]
    /\ net_devices' = [net_devices EXCEPT ![t] = {}]
    /\ net_metric' = [net_metric EXCEPT ![t] = {}]
    /\ UNCHANGED <<net_last_stats, net_last_carrier, net_lock, net_exposed, net_raw,
                   net_before, net_flips, notNet>>

(***************************************************************************)
(* DiskIOCollector                                                         *)
(***************************************************************************)

\* The device /proc/diskstats may hold a line for.
DiskDevice == "sda"

\* The lists read_diskstats() can return: empty (the line has fewer than 14
\* columns, or the disk is gone), or the device's entry.
DiskSamples ==
    {<<>>} \cup {<<s>> : s \in [device : {DiskDevice}, sectors_read : Values,
                                io_in_progress : Values]}

\* `s["sectors_read"] * 512.0`: no earlier value takes part.
ReadBytes(s) == s.sectors_read * 512

\* The samples the loop over read_diskstats() adds to the two families.
DiskFamilies(stats) ==
    UNION {{[family |-> "node_disk_read_bytes_total", device |-> stats[i].device,
             value |-> ReadBytes(stats[i])],
            [family |-> "node_disk_io_now", device |-> stats[i].device,
             value |-> stats[i].io_in_progress]} : i \in 1..Len(stats)}

DiskInit ==
    /\ disk_pc = [t \in Threads |-> "idle"]
    /\ disk_stats = [t \in Threads |-> <<>>]
    /\ disk_metric = [t \in Threads |-> {}]
    /\ disk_exposed = None

\* collect() up to the first yield: read_diskstats() and the loop over it.
DiskRead(t) ==
    /\ "disk" \in registered
    /\ disk_pc[t] = "idle"
    /\ \E s \in DiskSamples :
          /\ disk_stats' = [disk_stats EXCEPT ![t] = s]
          /\ disk_metric' = [disk_metric EXCEPT ![t] = DiskFamilies(s)]
    /\ disk_pc' = [disk_pc EXCEPT ![t] = "yield"]
    /\ UNCHANGED <<disk_exposed, notDisk>>

\* `yield read_bytes`, `yield io_now`: the scrape ends.
DiskYield(t) ==
    /\ disk_pc[t] = "yield"
    /\ disk_pc' = [disk_pc EXCEPT ![t] = "idle"]
    /\ disk_exposed' = IF disk_stats[t] = <<>> THEN disk_exposed
                       ELSE ReadBytes(disk_stats[t][1])
    /\ UNCHANGED <<disk_stats, disk_metric, notDisk>>

(***************************************************************************)
(* MemCollector                                                            *)
(***************************************************************************)

\* The names of MEM_METRICS the model reads, in the order of the list.
MEM_METRICS == <<"MemTotal", "MemFree">>

MemKeys == {MEM_METRICS[i] : i \in 1..Len(MEM_METRICS)}

\* What /proc/meminfo can parse to: each line present or not, any value.
MemSamples == [MemKeys -> Values \cup {None}]

\* How many entries of MEM_METRICS the locked loop gets through: it stops at
\* the first name `current` has no key for (current[metric_name] raises KeyError).
RECURSIVE MemPassed(_, _)
MemPassed(cur, i) ==
    IF i > Len(MEM_METRICS) \/ cur[MEM_METRICS[i]] = None THEN i - 1
    ELSE MemPassed(cur, i + 1)

MemInit ==
    /\ mem_last_stats = [k \in MemKeys |-> None]
    /\ mem_lock = "free"
    /\ mem_pc = [t \in Threads |-> "idle"]
    /\ mem_current = [t \in Threads |-> [k \in MemKeys |-> None]]
    /\ mem_metric = [t \in Threads |-> {}]

\* collect() up to the end of `with open("/proc/meminfo")`: current is parsed.
MemRead(t) ==
    /\ "memory" \in registered
    /\ mem_pc[t] = "idle"
    /\ \E s \in MemSamples : mem_current' = [mem_current EXCEPT ![t] = s]
    /\ mem_metric' = [mem_metric EXCEPT ![t] = {}]
    /\ mem_pc' = [mem_pc EXCEPT ![t] = "parsed"]
    /\ UNCHANGED <<mem_last_stats, mem_lock, notMem>>

\* open("/proc/meminfo") raises: the exception leaves collect().
MemOpenFails(t) ==
    /\ "memory" \in registered
    /\ mem_pc[t] = "idle"
    /\ mem_metric' = [mem_metric EXCEPT ![t] = {}]
    /\ mem_pc' = [mem_pc EXCEPT ![t] = "raising"]
    /\ UNCHANGED <<mem_last_stats, mem_lock, mem_current, notMem>>

\* `with self._lock:` entered.
MemAcquire(t) ==
    /\ mem_pc[t] = "parsed"
    /\ mem_lock = "free"
    /\ mem_lock' = t
    /\ mem_pc' = [mem_pc EXCEPT ![t] = "locked"]
    /\ UNCHANGED <<mem_last_stats, mem_current, mem_metric, notMem>>

\* The loop of the with block and the release of the lock, by the end of the
\* loop or by the KeyError of a name that is missing from `current`.
MemLocked(t) ==
    /\ mem_pc[t] = "locked"
    /\ LET cur == mem_current[t]
           n == MemPassed(cur, 1)
           done == {MEM_METRICS[i] : i \in 1..n}
       IN /\ mem_last_stats' = [k \in MemKeys |-> IF k \in done THEN cur[k] ELSE mem_last_stats[k]]
          /\ mem_metric' = [mem_metric EXCEPT ![t] = {[family |-> k, value |-> cur[k]] : k \in done}]
          /\ mem_pc' = [mem_pc EXCEPT ![t] = IF n = Len(MEM_METRICS) THEN "yield" ELSE "raising"]
    /\ mem_lock' = "free"
    /\ UNCHANGED <<mem_current, notMem>>

\* The `yield`s: the families are handed to the registry and the scrape ends.
MemYield(t) ==
    /\ mem_pc[t] = "yield"
    /\ mem_pc' = [mem_pc EXCEPT ![t] = "idle"]
    /\ mem_current' = [mem_current EXCEPT ![t] = [k \in MemKeys |-> None]]
    /\ UNCHANGED <<mem_last_stats, mem_lock, mem_metric, notMem>>

\* The exception reaches the caller of collect(): no family was yielded.
MemRaised(t) ==
    /\ mem_pc[t] = "raising"
    /\ mem_pc' = [mem_pc EXCEPT ![t] = "idle"]
    /\ mem_current' = [mem_current EXCEPT ![t] = [k \in MemKeys |-> None]]
    /\ mem_metric' = [mem_metric EXCEPT ![t] = {}]
    /\ UNCHANGED <<mem_last_stats, mem_lock, notMem>>

(***************************************************************************)
(* FilesysCollector                                                        *)
(***************************************************************************)

STAT_TIMEOUT == 5

STAT_WORKERS == 4

STUCK_TTL == 300

\* Last instant of the modelled time line (seconds).
MaxTime == 340

\* Scrapes of the filesystem collector a behaviour may start.
MaxScrapes == 3

\* Scrapes a behaviour with overlapping scrapes may start.
MaxOverlap == 2

\* Seconds os.statvfs takes on a healthy mount.
QuickProbe == 2

\* Seconds os.statvfs takes on a slow mount (longer than one result() timeout).
SlowProbe == 7

\* How long a statvfs call that does return may take.
Durations == {QuickProbe, SlowProbe}

\* Mount points /proc/self/mountinfo may list.
Mountpoints == {"/", "/mnt/slow", "/boot", "/home", "/var"}

\* What parse_mountinfo can return: the mount table at the time of the scrape.
MountTables == {<<"/">>, <<"/mnt/slow">>, <<"/", "/mnt/slow">>}

\* A mount table with more mounts than the pool has workers.
ManyMounts == <<"/", "/boot", "/home", "/var", "/mnt/slow">>

\* Pauses between scrapes: they put the next scrape one second before, or
\* exactly at, the end of the cool-down of a timeout of a slow mount.
IdleDeltas == {STUCK_TTL - (SlowProbe - STAT_TIMEOUT) - 1, STUCK_TTL - (SlowProbe - STAT_TIMEOUT)}

\* What os.statvfs can raise: an OSError, among them the builtin TimeoutError
\* (errno ETIMEDOUT).
Raised == {"raised", "raised_timeout"}

Finished(f) == f.st \in {"returned"} \cup Raised

NumRunning_None(t) == 0

\* The calls of statfs_call the pool of scrape t is executing.
NumRunning(t) == Cardinality({i \in 1..Len(fs_futures[t]) : fs_futures[t][i].st \in {"running", "hung"}})

IsStuck_Inclusive(key, now) == stuck_mounts[key] # None /\ now - stuck_mounts[key] <= STUCK_TTL

IsStuck_NoExpiry(key, now) == stuck_mounts[key] # None

IsStuck_Never(key, now) == FALSE

Now_Fresh(t) == clock

\* `now`: the time the scrape read once, before its submit loop.
Now(t) == fs_now[t]

\* `key in stuck_mounts and now - stuck_mounts[key] < STUCK_TTL`
IsStuck(key, now) == stuck_mounts[key] # None /\ now - stuck_mounts[key] < STUCK_TTL

Resolve_Dropped(results, m, outcome) == results

Resolve_Twice(results, m, outcome) == Append(Append(results, [m |-> m, outcome |-> outcome]), [m |-> m, outcome |-> outcome])

\* Whether `except TimeoutError` (the name imported from concurrent.futures)
\* catches what result() raised for a call that ended; otherwise it reaches
\* `except Exception`.
CaughtAsTimeout(st) == st = "raised_timeout" /\ builtin_timeout

StuckAfter_ForgetOnSuccess(old, outcome, time) ==
    IF outcome = "Timeout" THEN time ELSE IF outcome = "Success" THEN None ELSE old

StuckAfter_KeepFirst(old, outcome, time) ==
    IF outcome = "Timeout" /\ old = None THEN time ELSE old

\* stuck_mounts[mountpoint] after a future left the result loop: only the
\* `except TimeoutError` branch assigns it, with time.time().
StuckAfter(old, outcome, time) == IF outcome = "Timeout" THEN time ELSE old

ErrorFlag_Zero(outcome) == 0

\* The value given to device_error.add_metric in the three branches.
ErrorFlag(outcome) == IF outcome = "Success" THEN 0 ELSE 1

\* The way one future leaves the result loop: the try body ran to its end
\* (Success), `except TimeoutError` (Timeout) or `except Exception` (Error).
Resolve(results, m, outcome) == Append(results, [m |-> m, outcome |-> outcome])

FsInit ==
    /\ clock = 0
    /\ stuck_mounts = [m \in Mountpoints |-> None]
    /\ stuck_lock = "free"
    /\ fs_pc = [t \in Threads |-> "idle"]
    /\ fs_mounts = [t \in Threads |-> <<>>]
    /\ fs_now = [t \in Threads |-> None]
    /\ fs_idx = [t \in Threads |-> 1]
    /\ fs_futures = [t \in Threads |-> <<>>]
    /\ fs_deadline = [t \in Threads |-> None]
    /\ fs_results = [t \in Threads |-> <<>>]
    /\ fs_device_error = [t \in Threads |-> <<>>]
    /\ fs_size = [t \in Threads |-> <<>>]
    /\ fs_seen = [t \in Threads |-> [m \in Mountpoints |-> None]]
    /\ fs_phase = [t \in Threads |-> <<None, None>>]
    /\ fs_started = 0
    /\ fs_errored = {}

\* collect() up to `with ThreadPoolExecutor(...) as executor: futures = {}`.
\* A scrape is only started if the time line has room for all its waits and
\* fewer than `limit` scrapes were started before.
FsStartOn(t, limit, tables) ==
    /\ fs_pc[t] = "idle"
    /\ fs_started < limit
    /\ fs_started' = fs_started + 1
    /\ \E tbl \in tables :
          /\ clock + Len(tbl) * STAT_TIMEOUT + SlowProbe <= MaxTime
          /\ fs_mounts' = [fs_mounts EXCEPT ![t] = tbl]
    /\ fs_now' = [fs_now EXCEPT ![t] = clock]
    /\ fs_idx' = [fs_idx EXCEPT ![t] = 1]
    /\ fs_futures' = [fs_futures EXCEPT ![t] = <<>>]
    /\ fs_results' = [fs_results EXCEPT ![t] = <<>>]
    /\ fs_device_error' = [fs_device_error EXCEPT ![t] = <<>>]
    /\ fs_size' = [fs_size EXCEPT ![t] = <<>>]
    /\ fs_seen' = [fs_seen EXCEPT ![t] = stuck_mounts]
    /\ fs_phase' = [fs_phase EXCEPT ![t] = <<None, None>>]
    /\ fs_pc' = [fs_pc EXCEPT ![t] = "submit"]
    /\ UNCHANGED <<clock, stuck_mounts, stuck_lock, fs_deadline, fs_errored, notFs>>

FsAcquire_NoWait(t) ==
    /\ fs_pc[t] = "submit"
    /\ fs_idx[t] <= Len(fs_mounts[t])
    /\ stuck_lock' = t
    /\ fs_pc' = [fs_pc EXCEPT ![t] = "check"]
    /\ UNCHANGED <<clock, stuck_mounts, fsLocal, fs_started, fs_errored, notFs>>

\* parse_mountinfo() raises (open("/proc/self/mountinfo") fails): the exception
\* leaves collect() before `now` is taken and before the pool exists.
FsOpenFails(t) ==
    /\ "filesys" \in registered
    /\ fs_pc[t] = "idle"
    /\ fs_pc' = [fs_pc EXCEPT ![t] = "raising"]
    /\ UNCHANGED <<clock, stuck_mounts, stuck_lock, fsLocal, fs_started, fs_errored, notFs>>

\* The exception reaches the caller of collect(): no family was yielded.
FsRaised(t) ==
    /\ fs_pc[t] = "raising"
    /\ fs_pc' = [fs_pc EXCEPT ![t] = "idle"]
    /\ UNCHANGED <<clock, stuck_mounts, stuck_lock, fsLocal, fs_started, fs_errored, notFs>>

\* A scrape whose mount table is one of the small ones.
FsStart(t, limit) ==
    /\ "filesys" \in registered
    /\ FsStartOn(t, limit, MountTables)

\* A first scrape that finds the slow mount alone in the mount table.
FsStartOne(t) ==
    /\ "filesys" \in registered
    /\ fs_started = 0
    /\ FsStartOn(t, 1, {<<"/mnt/slow">>})

\* A second scrape, which finds a mount table larger than the pool.
FsStartMany(t) ==
    /\ "filesys" \in registered
    /\ fs_started = 1
    /\ FsStartOn(t, 2, {ManyMounts})

\* collect() of one FilesysCollector instance: the first scrape there is.
FsStartFirst(t) == fs_started = 0 /\ FsStart(t, 1)

\* collect() of another FilesysCollector instance, called once, after the first
\* instance's scrape began.  Both instances run the same module-level code on
\* the same module-level stuck_mounts and stuck_lock.
FsStartSecond(t) == fs_started = 1 /\ FsStart(t, 2)

\* `for m in mounts: ... with stuck_lock:` entered for the next mount.
FsAcquire(t) ==
    /\ fs_pc[t] = "submit"
    /\ fs_idx[t] <= Len(fs_mounts[t])
    /\ stuck_lock = "free"
    /\ stuck_lock' = t
    /\ fs_pc' = [fs_pc EXCEPT ![t] = "check"]
    /\ UNCHANGED <<clock, stuck_mounts, fsLocal, fs_started, fs_errored, notFs>>

FsSkipStuck_Silent(t) ==
    /\ fs_pc[t] = "check"
    /\ IsStuck(fs_mounts[t][fs_idx[t]], Now(t))
    /\ stuck_lock' = "free"
    /\ fs_idx' = [fs_idx EXCEPT ![t] = @ + 1]
    /\ fs_pc' = [fs_pc EXCEPT ![t] = "submit"]
    /\ UNCHANGED <<clock, stuck_mounts, fs_mounts, fs_now, fs_futures, fs_deadline,
                   fs_results, fs_device_error, fs_size, fs_seen, fs_phase, fs_started,
                   fs_errored, notFs>>

\* The mount is stuck: device_error 1, `continue` (which leaves the with block).
FsSkipStuck(t) ==
    /\ fs_pc[t] = "check"
    /\ LET key == fs_mounts[t][fs_idx[t]]
       IN /\ IsStuck(key, Now(t))
          /\ fs_device_error' = [fs_device_error EXCEPT ![t] = Append(@, [m |-> key, value |-> 1])]
    /\ stuck_lock' = "free"
    /\ fs_idx' = [fs_idx EXCEPT ![t] = @ + 1]
    /\ fs_pc' = [fs_pc EXCEPT ![t] = "submit"]
    /\ UNCHANGED <<clock, stuck_mounts, fs_mounts, fs_now, fs_futures, fs_deadline,
                   fs_results, fs_size, fs_seen, fs_phase, fs_started, fs_errored, notFs>>

FsSubmit_Locked(t) ==
    /\ fs_pc[t] = "check"
    /\ LET key == fs_mounts[t][fs_idx[t]]
       IN /\ ~IsStuck(key, Now(t))
          /\ fs_futures' = [fs_futures EXCEPT ![t] =
                 Append(@, [m |-> key, st |-> "queued", started |-> None, ends |-> None])]
    /\ stuck_lock' = IF fs_idx[t] = Len(fs_mounts[t]) THEN stuck_lock ELSE "free"
    /\ fs_idx' = [fs_idx EXCEPT ![t] = @ + 1]
    /\ fs_pc' = [fs_pc EXCEPT ![t] = "submit"]
    /\ UNCHANGED <<clock, stuck_mounts, fs_mounts, fs_now, fs_deadline, fs_results,
                   fs_device_error, fs_size, fs_seen, fs_phase, fs_started, fs_errored, notFs>>

\* The mount is not stuck: the with block is left and the probe is submitted.
FsSubmit(t) ==
    /\ fs_pc[t] = "check"
    /\ LET key == fs_mounts[t][fs_idx[t]]
       IN /\ ~IsStuck(key, Now(t))
          /\ fs_futures' = [fs_futures EXCEPT ![t] =
                 Append(@, [m |-> key, st |-> "queued", started |-> None, ends |-> None])]
    /\ stuck_lock' = "free"
    /\ fs_idx' = [fs_idx EXCEPT ![t] = @ + 1]
    /\ fs_pc' = [fs_pc EXCEPT ![t] = "submit"]
    /\ UNCHANGED <<clock, stuck_mounts, fs_mounts, fs_now, fs_deadline, fs_results,
                   fs_device_error, fs_size, fs_seen, fs_phase, fs_started, fs_errored, notFs>>

\* The submit loop is over: `for future, m in futures.items()` begins.
FsSubmitDone(t) ==
    /\ fs_pc[t] = "submit"
    /\ fs_idx[t] > Len(fs_mounts[t])
    /\ fs_idx' = [fs_idx EXCEPT ![t] = 1]
    /\ fs_phase' = [fs_phase EXCEPT ![t] = <<clock, None>>]
    /\ fs_pc' = [fs_pc EXCEPT ![t] = "wait"]
    /\ UNCHANGED <<clock, stuck_mounts, stuck_lock, fs_mounts, fs_now, fs_futures,
                   fs_deadline, fs_results, fs_device_error, fs_size, fs_seen, fs_started, fs_errored, notFs>>

\* A pool worker takes the oldest queued call while fewer than STAT_WORKERS run.
\* Whether os.statvfs will ever return is the kernel's choice.
FsProbeStart(t) ==
    /\ NumRunning(t) < STAT_WORKERS
    /\ \E i \in 1..Len(fs_futures[t]) :
          /\ fs_futures[t][i].st = "queued"
          /\ \A j \in 1..(i - 1) : fs_futures[t][j].st # "queued"
          /\ \/ \E d \in Durations :
                   fs_futures' = [fs_futures EXCEPT ![t][i] =
                      [@ EXCEPT !.st = "running", !.started = clock, !.ends = clock + d]]
             \/ fs_futures' = [fs_futures EXCEPT ![t][i] =
                      [@ EXCEPT !.st = "hung", !.started = clock]]
    /\ UNCHANGED <<clock, stuck_mounts, stuck_lock, fs_pc, fs_mounts, fs_now, fs_idx,
                   fs_deadline, fs_results, fs_device_error, fs_size, fs_seen, fs_phase, fs_started, fs_errored, notFs>>

FsProbeReturn_Clears(t) ==
    /\ \E i \in 1..Len(fs_futures[t]) :
          /\ fs_futures[t][i].st = "running"
          /\ fs_futures[t][i].ends = clock
          /\ fs_futures' = [fs_futures EXCEPT ![t][i] = [@ EXCEPT !.st = "returned"]]
          /\ stuck_mounts' = [stuck_mounts EXCEPT ![fs_futures[t][i].m] = None]
    /\ UNCHANGED <<clock, stuck_lock, fs_pc, fs_mounts, fs_now, fs_idx,
                   fs_deadline, fs_results, fs_device_error, fs_size, fs_seen, fs_phase, fs_started, fs_errored, notFs>>

\* statfs_call returns its dict.
FsProbeReturn(t) ==
    /\ \E i \in 1..Len(fs_futures[t]) :
          /\ fs_futures[t][i].st = "running"
          /\ fs_futures[t][i].ends = clock
          /\ fs_futures' = [fs_futures EXCEPT ![t][i] = [@ EXCEPT !.st = "returned"]]
    /\ UNCHANGED <<clock, stuck_mounts, stuck_lock, fs_pc, fs_mounts, fs_now, fs_idx,
                   fs_deadline, fs_results, fs_device_error, fs_size, fs_seen, fs_phase, fs_started, fs_errored, notFs>>

\* os.statvfs raises OSError.
FsProbeRaise(t) ==
    /\ \E i \in 1..Len(fs_futures[t]) :
          /\ fs_futures[t][i].st = "running"
          /\ fs_futures[t][i].ends = clock
          /\ \E e \in Raised :
                fs_futures' = [fs_futures EXCEPT ![t][i] = [@ EXCEPT !.st = e]]
    /\ UNCHANGED <<clock, stuck_mounts, stuck_lock, fs_pc, fs_mounts, fs_now, fs_idx,
                   fs_deadline, fs_results, fs_device_error, fs_size, fs_seen, fs_phase, fs_started, fs_errored, notFs>>

Deadline_Shared(t) == fs_phase[t][1] + STAT_TIMEOUT

\* When a result(timeout=STAT_TIMEOUT) called now gives up: the timeout counts
\* from the call, for each future anew.
Deadline(t) == clock + STAT_TIMEOUT

\* `future.result(timeout=STAT_TIMEOUT)` is called for the next future.
FsResultCall(t) ==
    /\ fs_pc[t] = "wait"
    /\ fs_idx[t] <= Len(fs_futures[t])
    /\ fs_deadline' = [fs_deadline EXCEPT ![t] = Deadline(t)]
    /\ fs_pc' = [fs_pc EXCEPT ![t] = "waiting"]
    /\ UNCHANGED <<clock, stuck_mounts, stuck_lock, fs_mounts, fs_now, fs_idx, fs_futures,
                   fs_results, fs_device_error, fs_size, fs_seen, fs_phase, fs_started, fs_errored, notFs>>

\* result() returns the stats: the try body adds the samples.
FsSuccess(t) ==
    /\ fs_pc[t] = "waiting"
    /\ LET f == fs_futures[t][fs_idx[t]]
       IN /\ f.st = "returned"
          /\ fs_size' = [fs_size EXCEPT ![t] = Append(@, f.m)]
          /\ fs_device_error' = [fs_device_error EXCEPT ![t] =
                Append(@, [m |-> f.m, value |-> ErrorFlag("Success")])]
          /\ fs_results' = [fs_results EXCEPT ![t] = Resolve(@, f.m, "Success")]
          /\ stuck_mounts' = [stuck_mounts EXCEPT ![f.m] = StuckAfter(@, "Success", clock)]
          /\ fs_errored' = fs_errored \ {f.m}
    /\ fs_idx' = [fs_idx EXCEPT ![t] = @ + 1]
    /\ fs_deadline' = [fs_deadline EXCEPT ![t] = None]
    /\ fs_pc' = [fs_pc EXCEPT ![t] = "wait"]
    /\ UNCHANGED <<clock, stuck_lock, fs_mounts, fs_now, fs_futures,
                   fs_seen, fs_phase, fs_started, notFs>>

\* result() re-raises the call's exception and `except Exception` gets it.
FsError(t) ==
    /\ fs_pc[t] = "waiting"
    /\ LET f == fs_futures[t][fs_idx[t]]
       IN /\ f.st \in Raised
          /\ ~CaughtAsTimeout(f.st)
          /\ fs_device_error' = [fs_device_error EXCEPT ![t] =
                Append(@, [m |-> f.m, value |-> ErrorFlag("Error")])]
          /\ fs_results' = [fs_results EXCEPT ![t] = Resolve(@, f.m, "Error")]
          /\ stuck_mounts' = [stuck_mounts EXCEPT ![f.m] = StuckAfter(@, "Error", clock)]
          /\ fs_errored' = fs_errored \cup {f.m}
    /\ fs_idx' = [fs_idx EXCEPT ![t] = @ + 1]
    /\ fs_deadline' = [fs_deadline EXCEPT ![t] = None]
    /\ fs_pc' = [fs_pc EXCEPT ![t] = "wait"]
    /\ UNCHANGED <<clock, stuck_lock, fs_mounts, fs_now, fs_futures,
                   fs_size, fs_seen, fs_phase, fs_started, notFs>>

\* The timeout of result() expires with the call unfinished: `except TimeoutError`.
FsTimeout(t) ==
    /\ fs_pc[t] = "waiting"
    /\ ~Finished(fs_futures[t][fs_idx[t]])
    /\ clock >= fs_deadline[t]
    /\ fs_pc' = [fs_pc EXCEPT ![t] = "timedout"]
    /\ fs_errored' = fs_errored \ {fs_futures[t][fs_idx[t]].m}
    /\ UNCHANGED <<clock, stuck_mounts, stuck_lock, fsLocal, fs_started, notFs>>

\* result() re-raises a TimeoutError of the call itself and `except TimeoutError`
\* gets it.
FsRaisedTimeout(t) ==
    /\ fs_pc[t] = "waiting"
    /\ CaughtAsTimeout(fs_futures[t][fs_idx[t]].st)
    /\ fs_pc' = [fs_pc EXCEPT ![t] = "timedout"]
    /\ fs_errored' = fs_errored \cup {fs_futures[t][fs_idx[t]].m}
    /\ UNCHANGED <<clock, stuck_mounts, stuck_lock, fsLocal, fs_started, notFs>>

\* `with stuck_lock:` of the handler entered.
FsRecordAcquire(t) ==
    /\ fs_pc[t] = "timedout"
    /\ stuck_lock = "free"
    /\ stuck_lock' = t
    /\ fs_pc' = [fs_pc EXCEPT ![t] = "record"]
    /\ UNCHANGED <<clock, stuck_mounts, fsLocal, fs_started, fs_errored, notFs>>

\* `stuck_mounts[m["mountpoint"]] = time.time()`, lock released, device_error 1.
FsRecord(t) ==
    /\ fs_pc[t] = "record"
    /\ LET f == fs_futures[t][fs_idx[t]]
       IN /\ stuck_mounts' = [stuck_mounts EXCEPT ![f.m] = StuckAfter(@, "Timeout", clock)]
          /\ fs_device_error' = [fs_device_error EXCEPT ![t] =
                Append(@, [m |-> f.m, value |-> ErrorFlag("Timeout")])]
          /\ fs_results' = [fs_results EXCEPT ![t] = Resolve(@, f.m, "Timeout")]
    /\ stuck_lock' = "free"
    /\ fs_idx' = [fs_idx EXCEPT ![t] = @ + 1]
    /\ fs_deadline' = [fs_deadline EXCEPT ![t] = None]
    /\ fs_pc' = [fs_pc EXCEPT ![t] = "wait"]
    /\ UNCHANGED <<clock, fs_mounts, fs_now, fs_futures, fs_size, fs_seen,
                   fs_phase, fs_started, fs_errored, notFs>>

\* The result loop is over: the with block is left, executor.shutdown(wait=True) begins.
FsResultsDone(t) ==
    /\ fs_pc[t] = "wait"
    /\ fs_idx[t] > Len(fs_futures[t])
    /\ fs_phase' = [fs_phase EXCEPT ![t] = <<@[1], clock>>]
    /\ fs_pc' = [fs_pc EXCEPT ![t] = "shutdown"]
    /\ UNCHANGED <<clock, stuck_mounts, stuck_lock, fs_mounts, fs_now, fs_idx, fs_futures,
                   fs_deadline, fs_results, fs_device_error, fs_size, fs_seen, fs_started, fs_errored, notFs>>

\* shutdown(wait=True) joins the workers: it returns once every submitted call has ended.
FsShutdown(t) ==
    /\ fs_pc[t] = "shutdown"
    /\ \A i \in 1..Len(fs_futures[t]) : Finished(fs_futures[t][i])
    /\ fs_pc' = [fs_pc EXCEPT ![t] = "yield"]
    /\ UNCHANGED <<clock, stuck_mounts, stuck_lock, fsLocal, fs_started, fs_errored, notFs>>

\* The seven `yield`s: the families are handed to the registry, the scrape ends
\* and its locals are gone.
FsYield(t) ==
    /\ fs_pc[t] = "yield"
    /\ fs_pc' = [fs_pc EXCEPT ![t] = "idle"]
    /\ fs_mounts' = [fs_mounts EXCEPT ![t] = <<>>]
    /\ fs_now' = [fs_now EXCEPT ![t] = None]
    /\ fs_idx' = [fs_idx EXCEPT ![t] = 1]
    /\ fs_futures' = [fs_futures EXCEPT ![t] = <<>>]
    /\ fs_results' = [fs_results EXCEPT ![t] = <<>>]
    /\ fs_device_error' = [fs_device_error EXCEPT ![t] = <<>>]
    /\ fs_size' = [fs_size EXCEPT ![t] = <<>>]
    /\ fs_seen' = [fs_seen EXCEPT ![t] = [m \in Mountpoints |-> None]]
    /\ fs_phase' = [fs_phase EXCEPT ![t] = <<None, None>>]
    /\ UNCHANGED <<clock, stuck_mounts, stuck_lock, fs_deadline, fs_started, fs_errored, notFs>>

\* A second passes while the scrape is between `now = time.time()` and the end
\* of its submit loop (the thread is descheduled, or waits for stuck_lock or
\* for executor.submit to start a worker); at most once per scrape, and only
\* followed while the registry has a timestamp the elapsed time could matter to.
FsPreempt(t) ==
    /\ fs_pc[t] = "submit"
    /\ \E m \in Mountpoints : stuck_mounts[m] # None
    /\ fs_idx[t] <= Len(fs_mounts[t])
    /\ clock = fs_now[t]
    /\ clock' = clock + 1
    /\ UNCHANGED <<stuck_mounts, stuck_lock, fs_pc, fsLocal, fs_started, fs_errored, notFs>>

\* A scrape that can take no step until time passes or a probe ends.
FsBlocked(t) ==
    \/ fs_pc[t] = "idle"
    \/ /\ fs_pc[t] = "waiting"
       /\ ~Finished(fs_futures[t][fs_idx[t]])
       /\ clock < fs_deadline[t]
    \/ /\ fs_pc[t] = "shutdown"
       /\ \E i \in 1..Len(fs_futures[t]) : ~Finished(fs_futures[t][i])

FsCanStart(t) ==
    /\ NumRunning(t) < STAT_WORKERS
    /\ \E i \in 1..Len(fs_futures[t]) : fs_futures[t][i].st = "queued"

\* The instants at which something is due: a result() timeout, the end of a call.
FsEvents(T) ==
    {fs_deadline[t] : t \in {u \in T : fs_pc[u] = "waiting"}}
    \cup UNION {{fs_futures[t][i].ends : i \in {j \in 1..Len(fs_futures[t]) :
                                                  fs_futures[t][j].st = "running"}} : t \in T}

Earliest(S) == CHOOSE x \in S : \A y \in S : x <= y

\* Time passes while every scrape is blocked (computation takes no time): the
\* clock moves to the next due instant.
TickEvent(T) ==
    /\ \A t \in T : FsBlocked(t) /\ ~FsCanStart(t)
    /\ FsEvents(T) # {}
    /\ Earliest(FsEvents(T)) > clock
    /\ clock' = Earliest(FsEvents(T))
    /\ UNCHANGED <<stuck_mounts, stuck_lock, fs_pc, fsLocal, fs_started, fs_errored, notFs>>

\* With nothing due, time passes by a pause between scrapes.
TickIdle(T) ==
    /\ \A t \in T : FsBlocked(t) /\ ~FsCanStart(t)
    /\ FsEvents(T) = {}
    /\ \E d \in IdleDeltas :
          /\ clock + d <= MaxTime
          /\ clock' = clock + d
    /\ UNCHANGED <<stuck_mounts, stuck_lock, fs_pc, fsLocal, fs_started, fs_errored, notFs>>

(***************************************************************************)
(* The combined exporter of src/main.py: CombinedHTTPHandler               *)
(***************************************************************************)

\* A line of the text format: a HELP line, a TYPE line or a sample, or the one
\* line that stands for an HTML page.
Help(name) == [kind |-> "HELP", name |-> name, type |-> "", labels |-> <<>>, value |-> 0]

Type(name, type) == [kind |-> "TYPE", name |-> name, type |-> type, labels |-> <<>>, value |-> 0]

Sample(name, labels, value) ==
    [kind |-> "SAMPLE", name |-> name, type |-> "", labels |-> labels, value |-> value]

Html(title) == [kind |-> "HTML", name |-> <<title>>, type |-> "", labels |-> <<>>, value |-> 0]

\* The three lines both generators end with.
ExporterInfo ==
    << Help(<<"node", "exporter_info">>),
       Type(<<"node", "exporter_info">>, "gauge"),
       Sample(<<"node", "exporter_info">>, << <<"version", "1.0">> >>, 1) >>

\* Lines of /proc/meminfo: one with the unit kB and one without a unit.
MeminfoLines ==
    {[key |-> "MemTotal", value |-> v, unit |-> "kB"] : v \in 0..MaxVal}
    \cup {[key |-> "HugePages_Total", value |-> v, unit |-> ""] : v \in 0..MaxVal}

\* The contents of /proc/meminfo: up to two lines with different keys.
MeminfoFiles ==
    {<<>>} \cup {<<l>> : l \in MeminfoLines}
    \cup {x \in MeminfoLines \X MeminfoLines : x[1].key # x[2].key}

\* prom_key: the key, with the suffix _bytes for a value in kB.
PromKey(key, unit) ==
    IF (unit = "kB" \/ key = "HugePages_Total") /\ key # "HugePages_Total"
    THEN <<key, "bytes">> ELSE <<key>>

\* read_meminfo: each line becomes prom_key -> value, a value in kB in bytes.
ReadMeminfo(file) ==
    [i \in 1..Len(file) |->
        [key |-> PromKey(file[i].key, file[i].unit),
         value |-> IF file[i].unit = "kB" THEN file[i].value * 1024 ELSE file[i].value]]

\* The metric type generate_prometheus_metrics gives a key of meminfo.
MemoryMetricType(key) == IF key[Len(key)] = "HugePages_Total" THEN "counter" ELSE "gauge"

RECURSIVE MemoryLines(_, _)
\* The three lines of each key of meminfo, from the i-th key on.
MemoryLines(meminfo, i) ==
    IF i > Len(meminfo) THEN <<>>
    ELSE LET name == <<"node", "memory">> \o meminfo[i].key
         IN << Help(name), Type(name, MemoryMetricType(meminfo[i].key)),
               Sample(name, <<>>, meminfo[i].value) >> \o MemoryLines(meminfo, i + 1)

\* memory_module.generate_prometheus_metrics(meminfo), as the list of its lines.
MemoryMetrics(meminfo) ==
    << Help(<<"node", "memory", "info">>), Type(<<"node", "memory", "info">>, "gauge") >>
    \o MemoryLines(meminfo, 1) \o ExporterInfo

NetdevNames == {"eth0", "lo"}

NetdevStats == <<"receive_bytes", "transmit_bytes">>

\* What get_net_dev_stats returns: (metrics, None) with the devices in the
\* order of the dict, or ({}, e).
NetdevReads ==
    LET Dev == [name : NetdevNames, values : [1..Len(NetdevStats) -> 0..MaxVal]]
    IN [stats : {<<>>} \cup {<<d>> : d \in Dev}
                \cup {x \in Dev \X Dev : x[1].name # x[2].name},
        err : {FALSE}]
       \cup {[stats |-> <<>>, err |-> TRUE]}

RECURSIVE NetdevLines(_, _, _)
\* The lines of the loop over stats.items(), from the n-th (device, stat) pair
\* on; HELP and TYPE precede the first sample of each metric name only.
NetdevLines(stats, n, defined_metrics) ==
    IF n > Len(stats) * Len(NetdevStats) THEN <<>>
    ELSE LET dev == stats[((n - 1) \div Len(NetdevStats)) + 1]
             j == ((n - 1) % Len(NetdevStats)) + 1
             metric_name == <<"node", "network", NetdevStats[j]>>
             sample == Sample(metric_name, << <<"device", dev.name>> >>, dev.values[j])
         IN (IF metric_name \in defined_metrics
             THEN <<sample>>
             ELSE <<Help(metric_name), Type(metric_name, "counter"), sample>>)
            \o NetdevLines(stats, n + 1, defined_metrics \cup {metric_name})

NetdevMetrics_HeaderOnError(read) ==
    << Help(<<"node", "network", "info">>), Type(<<"node", "network", "info">>, "gauge") >>
    \o (IF read.err THEN <<>> ELSE NetdevLines(read.stats, 1, {}) \o ExporterInfo)

\* network_module.generate_prometheus_metrics(): the empty string when
\* get_net_dev_stats returned an error, and else the list of its lines.
NetdevMetrics(read) ==
    IF read.err THEN <<>>
    ELSE << Help(<<"node", "network", "info">>), Type(<<"node", "network", "info">>, "gauge") >>
         \o NetdevLines(read.stats, 1, {}) \o ExporterInfo

\* Request targets: the paths do_GET tells apart, and queries as characters.
Paths == {"/metrics", "/", "/favicon.ico"}

Queries == {<<>>, <<"a">>, <<"%", "%">>, <<"%", "5", "B">>}

RECURSIVE FormatRaises(_, _)
\* Whether `format % ()` raises, as log_message(format) and log_error(format)
\* compute it with no arguments: every % that does not start %% needs one.
FormatRaises(chars, i) ==
    IF i > Len(chars) THEN FALSE
    ELSE IF chars[i] # "%" THEN FormatRaises(chars, i + 1)
    ELSE IF i < Len(chars) /\ chars[i + 1] = "%" THEN FormatRaises(chars, i + 2)
    ELSE TRUE

\* What send_response and wfile.write put on the connection.
StatusLine(code) == [kind |-> "status", code |-> code, lines |-> <<>>]

Body(lines) == [kind |-> "body", code |-> 0, lines |-> lines]

HttpInit ==
    /\ http_pc = "idle"
    /\ http_request = [path |-> "/", query |-> <<>>]
    /\ http_meminfo = <<>>
    /\ http_net_err = FALSE
    /\ http_network = <<>>
    /\ http_metrics = <<>>
    /\ http_wire = <<>>
    /\ http_raised = FALSE

\* do_GET is entered with a request for /metrics.
HttpGetMetrics ==
    /\ http_pc = "idle"
    /\ \E q \in Queries : http_request' = [path |-> "/metrics", query |-> q]
    /\ http_pc' = "try"
    /\ UNCHANGED <<http_meminfo, http_net_err, http_network, http_metrics, http_wire,
                   http_raised, notHttp>>

\* The try block up to `metrics = memory_metrics + network_metrics`.
HttpGenerate ==
    /\ http_pc = "try"
    /\ \E file \in MeminfoFiles : \E read \in NetdevReads :
          /\ http_meminfo' = ReadMeminfo(file)
          /\ http_net_err' = read.err
          /\ http_network' = NetdevMetrics(read)
          /\ http_metrics' = MemoryMetrics(ReadMeminfo(file)) \o NetdevMetrics(read)
    /\ http_pc' = "send"
    /\ UNCHANGED <<http_request, http_wire, http_raised, notHttp>>

\* open() of /proc/meminfo raises inside read_meminfo: on to the handler.
HttpGenerateFails ==
    /\ http_pc = "try"
    /\ http_pc' = "except"
    /\ UNCHANGED <<http_request, http_meminfo, http_net_err, http_network, http_metrics,
                   http_wire, http_raised, notHttp>>

\* The rest of the try block: send_response(200), the headers, the body, and
\* log_message(f"GET {self.path} 200"), which formats its argument with %.
HttpSend ==
    /\ http_pc = "send"
    /\ http_wire' = http_wire \o <<StatusLine(200), Body(http_metrics)>>
    /\ http_pc' = IF FormatRaises(http_request.query, 1) THEN "except" ELSE "done"
    /\ UNCHANGED <<http_request, http_meminfo, http_net_err, http_network, http_metrics,
                   http_raised, notHttp>>

\* except Exception: send_error(500, ...) and log_error(f"GET {self.path} 500 - ...").
HttpExcept ==
    /\ http_pc = "except"
    /\ http_wire' = http_wire \o <<StatusLine(500), Body(<<Html("Error response")>>)>>
    /\ http_raised' = FormatRaises(http_request.query, 1)
    /\ http_pc' = "done"
    /\ UNCHANGED <<http_request, http_meminfo, http_net_err, http_network, http_metrics,
                   notHttp>>

\* The landing page.
HttpGetRoot ==
    /\ http_pc = "idle"
    /\ \E q \in Queries :
          /\ http_request' = [path |-> "/", query |-> q]
          /\ http_raised' = FormatRaises(q, 1)
    /\ http_wire' = http_wire \o <<StatusLine(200), Body(<<Html("Python Node Exporter")>>)>>
    /\ http_pc' = "done"
    /\ UNCHANGED <<http_meminfo, http_net_err, http_network, http_metrics, notHttp>>

\* Any other path: send_error(404, "Not Found").
HttpGetOther ==
    /\ http_pc = "idle"
    /\ \E p \in Paths \ {"/metrics", "/"} : \E q \in Queries :
          /\ http_request' = [path |-> p, query |-> q]
          /\ http_raised' = FormatRaises(q, 1)
    /\ http_wire' = http_wire \o <<StatusLine(404), Body(<<Html("Error response")>>)>>
    /\ http_pc' = "done"
    /\ UNCHANGED <<http_meminfo, http_net_err, http_network, http_metrics, notHttp>>

\* The request is over; the server waits for the next one.
HttpFinish ==
    /\ http_pc = "done"
    /\ http_pc' = "idle"
    /\ http_request' = [path |-> "/", query |-> <<>>]
    /\ http_meminfo' = <<>>
    /\ http_net_err' = FALSE
    /\ http_network' = <<>>
    /\ http_metrics' = <<>>
    /\ http_wire' = <<>>
    /\ http_raised' = FALSE
    /\ UNCHANGED notHttp

Init ==
    /\ registered \in {{c} : c \in Collectors}
    /\ builtin_timeout \in BOOLEAN
    /\ CpuInit
    /\ NetInit
    /\ FsInit
    /\ DiskInit
    /\ MemInit
    /\ HttpInit

InitCpu == Init /\ registered = {"cpu"} /\ builtin_timeout

InitFs == Init /\ registered = {"filesys"}

\* Overlapping scrapes are followed on an interpreter from Python 3.11 on: there
\* both handlers can get a raised exception, while before 3.11 every raised
\* exception takes the path a plain OSError takes here.
InitFsOverlap == InitFs /\ builtin_timeout

InitCounters == Init /\ registered \in {{"cpu"}, {"network"}} /\ builtin_timeout

\* Scrapes of the CPU collector that may overlap.
NextCpu ==
    \/ \E t \in Threads : CpuRead(t)
    \/ \E t \in Threads : CpuAcquire(t)
    \/ \E t \in Threads : CpuGuardStep(t)
    \/ \E t \in Threads : CpuRelease(t)
    \/ \E t \in Threads : CpuYield(t)

\* The process of src/main.py: no collector class is registered in it.
InitHttp ==
    /\ registered = {}
    /\ builtin_timeout = TRUE
    /\ CpuInit
    /\ NetInit
    /\ FsInit
    /\ DiskInit
    /\ MemInit
    /\ HttpInit

\* The requests the server handles, one after the other.
NextHttp ==
    \/ HttpGetMetrics
    \/ HttpGenerate
    \/ HttpGenerateFails
    \/ HttpSend
    \/ HttpExcept
    \/ HttpGetRoot
    \/ HttpGetOther
    \/ HttpFinish

\* Overlapping scrapes of one of the collectors that have a lock.
InitLocks == Init /\ registered \in {{"cpu"}, {"network"}, {"filesys"}} /\ builtin_timeout

\* The whole exporter with one registered collector, whichever it is.
InitExporter == Init /\ (registered = {"filesys"} \/ builtin_timeout)

\* Scrapes of the registered counter collector that may overlap.
NextOverlap ==
    \/ NextCpu
    \/ \E t \in Threads : NetRead(t)
    \/ \E t \in Threads : NetAcquire(t)
    \/ \E t \in Threads : NetLocked(t)
    \/ \E t \in Threads : NetYield(t)

\* One scrape after the other, of whichever counter collector is registered.
NextCounters ==
    \/ CpuRead("t1")
    \/ CpuAcquire("t1")
    \/ CpuGuardStep("t1")
    \/ CpuRelease("t1")
    \/ CpuYield("t1")
    \/ NetRead("t1")
    \/ NetAcquire("t1")
    \/ NetLocked("t1")
    \/ NetYield("t1")

\* One scrape after the other.
NextFsSeq ==
    \/ FsStart("t1", MaxScrapes)
    \/ FsAcquire("t1")
    \/ FsSkipStuck("t1")
    \/ FsSubmit("t1")
    \/ FsSubmitDone("t1")
    \/ FsProbeStart("t1")
    \/ FsProbeReturn("t1")
    \/ FsProbeRaise("t1")
    \/ FsResultCall("t1")
    \/ FsSuccess("t1")
    \/ FsError("t1")
    \/ FsTimeout("t1")
    \/ FsRaisedTimeout("t1")
    \/ FsRecordAcquire("t1")
    \/ FsRecord("t1")
    \/ FsResultsDone("t1")
    \/ FsShutdown("t1")
    \/ FsYield("t1")
    \/ TickEvent({"t1"})
    \/ TickIdle({"t1"})

\* One scrape after the other, with submit loops that take time.
NextFsPreempt ==
    \/ NextFsSeq
    \/ FsPreempt("t1")

\* One scrape after the other, of whichever collector is registered.
NextExporter ==
    \/ NextCounters
    \/ NextFsSeq
    \/ DiskRead("t1")
    \/ DiskYield("t1")
    \/ MemRead("t1")
    \/ MemAcquire("t1")
    \/ MemLocked("t1")
    \/ MemYield("t1")
    \/ MemRaised("t1")
    \/ CpuOpenFails("t1")
    \/ CpuRaised("t1")
    \/ NetOpenFails("t1")
    \/ NetRaised("t1")
    \/ MemOpenFails("t1")
    \/ FsOpenFails("t1")
    \/ FsRaised("t1")

\* Scrapes that may overlap.
NextFs ==
    \/ \E t \in Threads : FsStart(t, MaxOverlap)
    \/ \E t \in Threads : FsAcquire(t)
    \/ \E t \in Threads : FsSkipStuck(t)
    \/ \E t \in Threads : FsSubmit(t)
    \/ \E t \in Threads : FsSubmitDone(t)
    \/ \E t \in Threads : FsProbeStart(t)
    \/ \E t \in Threads : FsProbeReturn(t)
    \/ \E t \in Threads : FsProbeRaise(t)
    \/ \E t \in Threads : FsResultCall(t)
    \/ \E t \in Threads : FsSuccess(t)
    \/ \E t \in Threads : FsError(t)
    \/ \E t \in Threads : FsTimeout(t)
    \/ \E t \in Threads : FsRaisedTimeout(t)
    \/ \E t \in Threads : FsRecordAcquire(t)
    \/ \E t \in Threads : FsRecord(t)
    \/ \E t \in Threads : FsResultsDone(t)
    \/ \E t \in Threads : FsShutdown(t)
    \/ \E t \in Threads : FsYield(t)
    \/ TickEvent(Threads)

\* Two scrapes, one after the other, the second of a mount table larger than
\* the pool.
NextFsMany ==
    \/ FsStartOne("t1")
    \/ FsStartMany("t1")
    \/ FsAcquire("t1")
    \/ FsSkipStuck("t1")
    \/ FsSubmit("t1")
    \/ FsSubmitDone("t1")
    \/ FsProbeStart("t1")
    \/ FsProbeReturn("t1")
    \/ FsProbeRaise("t1")
    \/ FsResultCall("t1")
    \/ FsSuccess("t1")
    \/ FsError("t1")
    \/ FsTimeout("t1")
    \/ FsRaisedTimeout("t1")
    \/ FsRecordAcquire("t1")
    \/ FsRecord("t1")
    \/ FsResultsDone("t1")
    \/ FsShutdown("t1")
    \/ FsYield("t1")
    \/ TickEvent({"t1"})

\* Scrapes of the registered collector that may overlap, whichever it is.
NextLocks ==
    \/ NextOverlap
    \/ NextFs

\* Two FilesysCollector instances: scrape t1 runs collect() of the one, scrape
\* t2 collect() of the other, and they may overlap.
NextFsTwo ==
    \/ FsStartFirst("t1")
    \/ FsStartSecond("t2")
    \/ \E t \in Threads : FsAcquire(t)
    \/ \E t \in Threads : FsSkipStuck(t)
    \/ \E t \in Threads : FsSubmit(t)
    \/ \E t \in Threads : FsSubmitDone(t)
    \/ \E t \in Threads : FsProbeStart(t)
    \/ \E t \in Threads : FsProbeReturn(t)
    \/ \E t \in Threads : FsProbeRaise(t)
    \/ \E t \in Threads : FsResultCall(t)
    \/ \E t \in Threads : FsSuccess(t)
    \/ \E t \in Threads : FsError(t)
    \/ \E t \in Threads : FsTimeout(t)
    \/ \E t \in Threads : FsRaisedTimeout(t)
    \/ \E t \in Threads : FsRecordAcquire(t)
    \/ \E t \in Threads : FsRecord(t)
    \/ \E t \in Threads : FsResultsDone(t)
    \/ \E t \in Threads : FsShutdown(t)
    \/ \E t \in Threads : FsYield(t)
    \/ TickEvent(Threads)

SpecCpu == InitCpu /\ [][NextCpu]_vars

SpecCounters == InitCounters /\ [][NextCounters]_vars

SpecFsSeq == InitFs /\ [][NextFsSeq]_vars

SpecFs == InitFsOverlap /\ [][NextFs]_vars

SpecFsPreempt == InitFs /\ [][NextFsPreempt]_vars

SpecOverlap == InitCounters /\ [][NextOverlap]_vars

SpecFsTwo == InitFsOverlap /\ [][NextFsTwo]_vars

SpecFsMany == InitFsOverlap /\ [][NextFsMany]_vars

SpecLocks == InitLocks /\ [][NextLocks]_vars

SpecHttp == InitHttp /\ [][NextHttp]_vars

SpecExporter == InitExporter /\ [][NextExporter]_vars

\* The interpreter keeps running a scrape that can take a step, the kernel ends
\* the calls that do end, and time passes.
FairSpecFsSeq == SpecFsSeq /\ WF_vars(NextFsSeq)

(***************************************************************************)
(* Properties of the counter guard                                         *)
(***************************************************************************)

\* The step in which scrape t passes `key` through the guard of CpuCollector.
CpuGuardOn(t, key) ==
    /\ cpu_pc[t] = "locked"
    /\ cpu_todo[t] # <<>>
    /\ Head(cpu_todo[t]) = key
    /\ cpu_todo'[t] = Tail(cpu_todo[t])

\* The sample that step adds to the family.
CpuAdded(t, key, v) == cpu_metric'[t] = Append(cpu_metric[t], [key |-> key, value |-> v])

\* The step in which scrape t runs the locked block of NetworkCollector.
NetGuardOn(t) == net_pc[t] = "locked" /\ net_pc'[t] = "yield"

\* C1: for every counter key of CpuCollector and of NetworkCollector, the value
\* published for the key in a scrape is never less than the value published for
\* it in the previous scrape that published it, whatever the raw readings do.
C1_PublishedNeverDecreases ==
    [][ /\ \A k \in CpuKeys :
              cpu_exposed[k] # None => cpu_exposed'[k] # None /\ cpu_exposed'[k] >= cpu_exposed[k]
        /\ \A k \in NetCounterKeys :
              net_exposed[k] # None => net_exposed'[k] # None /\ net_exposed'[k] >= net_exposed[k]
      ]_vars

\* A CPU key whose raw reading fell below the one before it, while the value
\* published for it did not.
C1_Witness ==
    \E k \in CpuKeys :
        /\ cpu_prev_raw[k] # None
        /\ cpu_raw[k] < cpu_prev_raw[k]
        /\ cpu_exposed[k] >= cpu_prev_raw[k]

\* C2 as stated: the published value equals the raw value in every scrape whose
\* raw value is at least the previous RAW sample of the key.
C2_RawAdvanceIsPublished ==
    \A k \in CpuKeys :
        cpu_prev_raw[k] # None /\ cpu_raw[k] >= cpu_prev_raw[k] => cpu_exposed[k] = cpu_raw[k]

\* C2: the published value equals the raw value in every scrape whose raw value
\* is at least the previous PUBLISHED value of the key, and equals that previous
\* published value otherwise (raw 100, 80, 90 publishes 100, 100, 100).
C2_PublishedAdvanceIsPublished ==
    [][ \A t \in Threads : \A k \in CpuKeys :
            CpuGuardOn(t, k) /\ cpu_exposed[k] # None =>
                IF cpu_current[t][k] >= cpu_exposed[k]
                THEN CpuAdded(t, k, cpu_current[t][k])
                ELSE CpuAdded(t, k, cpu_exposed[k])
      ]_vars

\* A key whose raw value rose against the previous raw sample and is still
\* below the value published for it (the third scrape of 100, 80, 90).
C2_Witness ==
    \E k \in CpuKeys :
        /\ cpu_prev_raw[k] # None
        /\ cpu_raw[k] > cpu_prev_raw[k]
        /\ cpu_exposed[k] > cpu_raw[k]

\* C3: when the raw value of a key is strictly less than the value the store
\* holds, the guard publishes the stored value and leaves the store entry alone.
C3_RegressionKeepsStore ==
    [][ \A t \in Threads : \A k \in CpuKeys :
            /\ CpuGuardOn(t, k)
            /\ cpu_last_stats[k] # None
            /\ cpu_current[t][k] < cpu_last_stats[k]
            => /\ CpuAdded(t, k, cpu_last_stats[k])
               /\ cpu_last_stats'[k] = cpu_last_stats[k]
      ]_vars

\* A key that went through the guard with a raw value below its store entry.
C3_Witness ==
    \E k \in CpuKeys :
        /\ cpu_raw[k] # None
        /\ cpu_last_stats[k] # None
        /\ cpu_raw[k] < cpu_last_stats[k]
        /\ cpu_exposed[k] = cpu_last_stats[k]

\* C4: when a key has no store entry, or its raw value is at least the stored
\* value, the guard publishes the raw value and the store entry equals the raw
\* value afterwards (CpuCollector and NetworkCollector).
C4_AdvanceIsPublishedAndStored ==
    [][ /\ \A t \in Threads : \A k \in CpuKeys :
              /\ CpuGuardOn(t, k)
              /\ (cpu_last_stats[k] = None \/ cpu_current[t][k] >= cpu_last_stats[k])
              => /\ CpuAdded(t, k, cpu_current[t][k])
                 /\ cpu_last_stats'[k] = cpu_current[t][k]
        /\ \A t \in Threads : \A k \in NetCounterKeys :
              /\ NetGuardOn(t)
              /\ k[1] \in net_devices[t]
              /\ (net_last_stats[k] = None \/ Get(net_current[t], k, 0) >= net_last_stats[k])
              => /\ \A s \in net_metric'[t] :
                       s.family = k[2] /\ s.device = k[1] => s.value = Get(net_current[t], k, 0)
                 /\ \E s \in net_metric'[t] : s.family = k[2] /\ s.device = k[1]
                 /\ net_last_stats'[k] = Get(net_current[t], k, 0)
      ]_vars

\* A network key that had a store entry and went through the guard with a
\* larger raw value, which is now published and stored.
C4_Witness ==
    \E k \in NetCounterKeys :
        /\ net_before[k] # None
        /\ net_raw[k] > net_before[k]
        /\ net_exposed[k] = net_raw[k]
        /\ net_last_stats[k] = net_raw[k]

(***************************************************************************)
(* Properties of the filesystem scrape                                     *)
(***************************************************************************)

\* The futures of scrape t that probe mount m.
FuturesOf(t, m) == {i \in 1..Len(fs_futures[t]) : fs_futures[t][i].m = m}

\* The device_error samples scrape t added for mount m.
ErrorsOf(t, m) == {i \in 1..Len(fs_device_error[t]) : fs_device_error[t][i].m = m}

\* Mount m has been through the submit loop of scrape t.
Visited(t, m) ==
    \/ /\ fs_pc[t] \in {"submit", "check"}
       /\ \E i \in 1..(fs_idx[t] - 1) : fs_mounts[t][i] = m
    \/ /\ fs_pc[t] \in {"wait", "waiting", "timedout", "record", "shutdown", "yield"}
       /\ \E i \in 1..Len(fs_mounts[t]) : fs_mounts[t][i] = m

\* Mount m was quarantined when scrape t took `now`.
QuarantinedAtStart(t, m) ==
    /\ fs_now[t] # None
    /\ fs_seen[t][m] # None
    /\ fs_now[t] - fs_seen[t][m] < STUCK_TTL

\* C5 as stated: a filesystem scrape that has begun always runs to its end and
\* yields its families, also when a statfs_call never returns.
C5_ScrapeTerminates ==
    \A t \in Threads : (fs_pc[t] # "idle") ~> (fs_pc[t] = "idle")

\* C6 as stated: the result loop of a scrape is over within T plus an overhead
\* (of less than another T), however many of its probes hang.
C6_ProbePhaseWithinTimeout ==
    \A t \in Threads :
        fs_phase[t][2] # None => fs_phase[t][2] - fs_phase[t][1] < 2 * STAT_TIMEOUT

\* C7: in every scrape, also when scrapes overlap, the i-th submitted target
\* gets the i-th outcome, one of Success, Timeout and Error, and once the result
\* loop is over there are exactly as many outcomes as targets.
C7_OneOutcomePerTarget ==
    \A t \in Threads :
        /\ Len(fs_results[t]) <= Len(fs_futures[t])
        /\ \A i \in 1..Len(fs_results[t]) :
              /\ fs_results[t][i].m = fs_futures[t][i].m
              /\ fs_results[t][i].outcome \in {"Success", "Timeout", "Error"}
        /\ fs_pc[t] \in {"shutdown", "yield"} => Len(fs_results[t]) = Len(fs_futures[t])
        /\ fs_pc[t] \in {"wait", "waiting", "timedout", "record"} =>
              Len(fs_results[t]) = fs_idx[t] - 1

\* Two overlapping scrapes, both past their result loops, one of which resolved
\* two targets to different outcomes.
C7_Witness ==
    /\ \A t \in Threads : fs_pc[t] \in {"shutdown", "yield"} /\ Len(fs_futures[t]) > 0
    /\ \E t \in Threads :
          /\ Len(fs_results[t]) = 2
          /\ fs_results[t][1].outcome # fs_results[t][2].outcome

\* C8 as stated: a target reported as Success had a probe call that took no
\* longer than T.
C8_SlowProbeIsNeverSuccess ==
    \A t \in Threads : \A i \in 1..Len(fs_results[t]) :
        fs_results[t][i].outcome = "Success" =>
            fs_futures[t][i].ends - fs_futures[t][i].started <= STAT_TIMEOUT

\* C9: a mount quarantined at the start of a scrape gets no probe and no size
\* sample in that scrape, and once the submit loop passed it, exactly one
\* device_error sample, of value 1.
C9_QuarantinedIsSkipped ==
    \A t \in Threads : \A m \in Mountpoints :
        QuarantinedAtStart(t, m) =>
            /\ FuturesOf(t, m) = {}
            /\ \A i \in 1..Len(fs_size[t]) : fs_size[t][i] # m
            /\ \A i \in ErrorsOf(t, m) : fs_device_error[t][i].value = 1
            /\ Visited(t, m) => Cardinality(ErrorsOf(t, m)) = 1

\* A scrape about to yield that found one of its mounts quarantined.
C9_Witness ==
    \E t \in Threads : \E m \in Mountpoints :
        /\ fs_pc[t] = "yield"
        /\ QuarantinedAtStart(t, m)
        /\ Visited(t, m)
        /\ Len(fs_mounts[t]) = 2

\* C10: with one scrape after the other, a mount whose timeout was recorded at
\* t0 is not probed by a scrape that starts before t0 + STUCK_TTL and is probed
\* by a scrape that starts at or after t0 + STUCK_TTL.
C10_CoolDownBoundary ==
    \A t \in Threads : \A m \in Mountpoints :
        fs_seen[t][m] # None /\ Visited(t, m) =>
            IF fs_now[t] < fs_seen[t][m] + STUCK_TTL
            THEN FuturesOf(t, m) = {}
            ELSE FuturesOf(t, m) # {}

\* A scrape that started exactly STUCK_TTL after the recorded timeout of a
\* mount and probes the mount.
C10_Witness ==
    \E t \in Threads : \E m \in Mountpoints :
        /\ fs_seen[t][m] # None
        /\ fs_now[t] = fs_seen[t][m] + STUCK_TTL
        /\ Visited(t, m)
        /\ FuturesOf(t, m) # {}

\* The step in which scrape t leaves the `except TimeoutError` handler.
FsRecordOn(t) == fs_pc[t] = "record" /\ fs_pc'[t] = "wait"

\* The outcomes scrape t has for mount m.
OutcomesOf(t, m) ==
    {fs_results[t][i].outcome : i \in {j \in 1..Len(fs_results[t]) : fs_results[t][j].m = m}}

\* The values of the device_error samples scrape t added for mount m.
ErrorValuesOf(t, m) == {fs_device_error[t][i].value : i \in ErrorsOf(t, m)}

\* The mounts scrape t added size/free/avail/files samples for.
SizedBy(t) == {fs_size[t][i] : i \in 1..Len(fs_size[t])}

\* C11: a scrape that starts after the cool-down of a mount has elapsed probes
\* it, a renewed timeout overwrites the registry timestamp with the time of that
\* timeout, and a scrape that starts less than STUCK_TTL after the timestamp the
\* registry holds does not probe the mount.
C11_RenewedTimeoutRestartsCoolDown ==
    /\ [](\A t \in Threads : \A m \in Mountpoints :
             fs_seen[t][m] # None /\ Visited(t, m) =>
                /\ fs_now[t] - fs_seen[t][m] >= STUCK_TTL => FuturesOf(t, m) # {}
                /\ fs_now[t] - fs_seen[t][m] < STUCK_TTL => FuturesOf(t, m) = {})
    /\ [][\A t \in Threads :
             FsRecordOn(t) =>
                stuck_mounts' = [stuck_mounts EXCEPT ![fs_futures[t][fs_idx[t]].m] = clock]
         ]_vars

\* A mount that was probed again after its cool-down, timed out again, and
\* whose registry timestamp is now the time of the second timeout.
C11_Witness ==
    \E t \in Threads : \E m \in Mountpoints :
        /\ fs_seen[t][m] # None
        /\ fs_now[t] - fs_seen[t][m] >= STUCK_TTL
        /\ "Timeout" \in OutcomesOf(t, m)
        /\ stuck_mounts[m] >= fs_now[t]
        /\ stuck_mounts[m] > fs_seen[t][m]

\* C12 as stated: the handler that writes the registry is entered only because
\* the wait for a call that has not ended expired, never for a call that ended
\* (by raising, whatever it raised, or by returning).
C12_RegistryWrittenOnlyOnTimeout ==
    [][\A t \in Threads :
          fs_pc[t] = "waiting" /\ fs_pc'[t] = "timedout" =>
              ~Finished(fs_futures[t][fs_idx[t]])
      ]_vars

\* C13 as stated: when result() is reached for a call that ended by raising,
\* the scrape goes on with the next future and that mount's outcome is Error.
C13_RaisedIsError ==
    [][\A t \in Threads :
          /\ fs_pc[t] = "waiting"
          /\ fs_futures[t][fs_idx[t]].st \in Raised
          /\ fs_pc'[t] # "waiting"
          => /\ fs_pc'[t] = "wait"
             /\ fs_idx'[t] = fs_idx[t] + 1
             /\ fs_results'[t] = Append(fs_results[t],
                    [m |-> fs_futures[t][fs_idx[t]].m, outcome |-> "Error"])
      ]_vars

\* C14 as stated: a mount whose call ended by raising has a device_error
\* sample of value 1 in the scrape that awaited it, and the next scrape that
\* lists the mount probes it.
C14_ErrorIsRetried ==
    \A t \in Threads : \A m \in Mountpoints :
        /\ "Error" \in OutcomesOf(t, m) => ErrorValuesOf(t, m) = {1}
        /\ m \in fs_errored /\ Visited(t, m) => FuturesOf(t, m) # {}

\* C15: a scrape that reached its yields has exactly one device_error sample
\* for every entry of its mount table, each of value 0 or 1, and no other.
C15_OneDeviceErrorPerMount ==
    \A t \in Threads :
        fs_pc[t] = "yield" =>
            /\ Len(fs_device_error[t]) = Len(fs_mounts[t])
            /\ \A i \in 1..Len(fs_mounts[t]) : Cardinality(ErrorsOf(t, fs_mounts[t][i])) = 1
            /\ \A i \in 1..Len(fs_device_error[t]) : fs_device_error[t][i].value \in {0, 1}

\* A scrape at its yields with one mount skipped as quarantined and the other
\* resolved by a probe.
C15_Witness ==
    \E t \in Threads : \E m \in Mountpoints :
        /\ fs_pc[t] = "yield"
        /\ Len(fs_mounts[t]) = 2
        /\ QuarantinedAtStart(t, m)
        /\ Len(fs_results[t]) = 1

\* C16: a mount resolved to Success has the size samples and device_error 0, a
\* mount resolved to Timeout or Error has device_error 1 and no size sample; a
\* mount has a size sample exactly if it has a device_error sample of value 0.
C16_MetricsFollowOutcome ==
    \A t \in Threads : \A m \in Mountpoints :
        /\ "Success" \in OutcomesOf(t, m) => m \in SizedBy(t) /\ ErrorValuesOf(t, m) = {0}
        /\ OutcomesOf(t, m) \cap {"Timeout", "Error"} # {} =>
              m \notin SizedBy(t) /\ ErrorValuesOf(t, m) = {1}
        /\ m \in SizedBy(t) <=> 0 \in ErrorValuesOf(t, m)

\* A scrape that resolved one mount to Success and the other to Timeout.
C16_Witness ==
    \E t \in Threads :
        /\ fs_pc[t] \in {"shutdown", "yield"}
        /\ \E m \in Mountpoints : OutcomesOf(t, m) = {"Success"} /\ m \in SizedBy(t)
        /\ \E m \in Mountpoints : OutcomesOf(t, m) = {"Timeout"} /\ m \notin SizedBy(t)

\* The step in which scrape t decides about the mount at fs_idx[t].
FsCheckOn(t) == fs_pc[t] = "check" /\ fs_pc'[t] = "submit"

\* C17: a mount is skipped as quarantined exactly if the registry has a
\* timestamp for its mountpoint and now - timestamp < 300, now being the time
\* the scrape read once at its start (not the time of the test); otherwise,
\* and always when the registry has no entry, its probe is submitted.
C17_QuarantineTest ==
    [][\A t \in Threads :
          /\ fs_pc[t] # "idle" /\ fs_pc'[t] # "idle" => fs_now'[t] = fs_now[t]
          /\ FsCheckOn(t) =>
                LET key == fs_mounts[t][fs_idx[t]]
                    quarantined == /\ stuck_mounts[key] # None
                                   /\ fs_now[t] - stuck_mounts[key] < 300
                IN IF quarantined
                   THEN /\ fs_futures'[t] = fs_futures[t]
                        /\ fs_device_error'[t] =
                              Append(fs_device_error[t], [m |-> key, value |-> 1])
                   ELSE /\ Len(fs_futures'[t]) = Len(fs_futures[t]) + 1
                        /\ fs_futures'[t][Len(fs_futures'[t])].m = key
                        /\ fs_device_error'[t] = fs_device_error[t]
      ]_vars

\* A mount skipped as quarantined by a test made 300 s after its timestamp, in
\* a scrape that had read `now` 299 s after it.
C17_Witness ==
    \E t \in Threads : \E m \in Mountpoints :
        /\ fs_pc[t] = "submit"
        /\ Visited(t, m)
        /\ FuturesOf(t, m) = {}
        /\ stuck_mounts[m] # None
        /\ fs_now[t] - stuck_mounts[m] = 299
        /\ clock - stuck_mounts[m] = 300

(***************************************************************************)
(* Properties of the counter guard: the keys it covers                     *)
(***************************************************************************)

\* The keys scrape t added a sample for to node_cpu_seconds_total.
CpuPublishedKeys(t) == {cpu_metric[t][i].key : i \in 1..Len(cpu_metric[t])}

\* The samples scrape t added to the counter family of network key k.
NetSamplesOf(metric, k) == {s \in metric : s.family = k[2] /\ s.device = k[1]}

\* The counter keys scrape t added a sample for.
NetPublishedKeys(t) == {k \in NetCounterKeys : NetSamplesOf(net_metric[t], k) # {}}

\* The guard of CpuCollector as a function of one key's store entry and raw
\* value (None: the sample has no such key): what it publishes ...
CpuGuardOutput(last, value) == IF value = None THEN None ELSE CpuPublished(last, value)

\* ... and what the store holds afterwards.
CpuGuardStore(last, value) == IF value = None THEN last ELSE CpuStored(last, value)

\* C18 as stated: a scrape publishes one value for every key of its sample and
\* for no other key (CpuCollector: the keys parsed from /proc/stat;
\* NetworkCollector: the keys parsed from /proc/net/dev).
C18_OnePublishedValuePerSampleKey ==
    \A t \in Threads :
        /\ cpu_pc[t] = "yield" =>
              /\ CpuPublishedKeys(t) = {k \in CpuKeys : cpu_current[t][k] # None}
              /\ Len(cpu_metric[t]) = Cardinality(CpuPublishedKeys(t))
        /\ net_pc[t] = "yield" =>
              /\ NetPublishedKeys(t) = {k \in NetCounterKeys : net_current[t][k] # None}
              /\ \A k \in NetCounterKeys : Cardinality(NetSamplesOf(net_metric[t], k)) <= 1

\* C19 as stated: a key that the store has and the sample has not is not
\* published by the scrape and keeps its store entry.
C19_AbsentKeyUntouched ==
    [][\A t \in Threads :
          /\ \A k \in CpuKeys :
                cpu_pc[t] = "locked" /\ cpu_current[t][k] = None /\ cpu_last_stats[k] # None
                => /\ cpu_last_stats'[k] = cpu_last_stats[k]
                   /\ k \notin {cpu_metric'[t][i].key : i \in 1..Len(cpu_metric'[t])}
          /\ \A k \in NetCounterKeys :
                NetGuardOn(t) /\ net_current[t][k] = None /\ net_last_stats[k] # None
                => /\ net_last_stats'[k] = net_last_stats[k]
                   /\ NetSamplesOf(net_metric'[t], k) = {}
      ]_vars

\* C20 as stated: on the same store entry and the same raw value of a key, or
\* the same lack of one, the guard of NetworkCollector publishes and stores what
\* the guard of CpuCollector publishes and stores.
C20_GuardsAgree ==
    [][ /\ \A k \in CpuKeys :
              /\ \A t \in Threads :
                    CpuGuardOn(t, k) =>
                       /\ cpu_current[t][k] # None
                       /\ CpuAdded(t, k, CpuGuardOutput(cpu_last_stats[k], cpu_current[t][k]))
                       /\ cpu_last_stats'[k] = CpuGuardStore(cpu_last_stats[k], cpu_current[t][k])
              /\ (\A t \in Threads : ~CpuGuardOn(t, k)) => cpu_last_stats'[k] = cpu_last_stats[k]
        /\ \A k \in NetCounterKeys :
              /\ \A t \in Threads :
                    NetGuardOn(t) =>
                       /\ {s.value : s \in NetSamplesOf(net_metric'[t], k)} =
                             {CpuGuardOutput(net_last_stats[k], net_current[t][k])} \ {None}
                       /\ net_last_stats'[k] = CpuGuardStore(net_last_stats[k], net_current[t][k])
              /\ (\A t \in Threads : ~NetGuardOn(t)) => net_last_stats'[k] = net_last_stats[k]
      ]_vars

(***************************************************************************)
(* Properties across collectors                                            *)
(***************************************************************************)

\* C21: in every counter-type family of every collector (node_cpu_seconds_total,
\* the node_network_*_total families, node_disk_read_bytes_total), the value
\* published for a label set is never less than the value published for it in
\* the scrape before, also when the kernel's reading went down.
C21_EveryCounterFamilyNeverDecreases ==
    [][ /\ \A k \in CpuKeys :
              cpu_exposed[k] # None /\ cpu_exposed'[k] # None => cpu_exposed'[k] >= cpu_exposed[k]
        /\ \A k \in NetCounterKeys :
              net_exposed[k] # None /\ net_exposed'[k] # None => net_exposed'[k] >= net_exposed[k]
        /\ disk_exposed # None /\ disk_exposed' # None => disk_exposed' >= disk_exposed
      ]_vars

\* The scrapes inside the locked block of a collector.
CpuInGuard == {t \in Threads : cpu_pc[t] = "locked"}

NetInGuard == {t \in Threads : net_pc[t] = "locked"}

\* C22: guard passes of overlapping scrapes on one CpuCollector or one
\* NetworkCollector are serialized: at most one scrape is inside the locked block,
\* it holds the lock, and while it is inside the store holds, for every key it
\* has passed, exactly what its pass left there (no other pass has written in
\* between).
C22_GuardPassesAreSerialized ==
    /\ \A t \in CpuInGuard :
          /\ cpu_lock = t
          /\ CpuInGuard = {t}
          /\ \A i \in 1..Len(cpu_metric[t]) :
                cpu_last_stats[cpu_metric[t][i].key] = cpu_metric[t][i].value
    /\ \A t \in NetInGuard :
          /\ net_lock = t
          /\ NetInGuard = {t}

\* One scrape is in the middle of its pass over the CPU keys while the other
\* has parsed its sample and waits for the lock.
C22_Witness ==
    \E t, u \in Threads :
        /\ t # u
        /\ cpu_pc[t] = "locked"
        /\ cpu_metric[t] # <<>>
        /\ cpu_todo[t] # <<>>
        /\ cpu_pc[u] = "parsed"
        /\ \E k \in CpuKeys : cpu_current[u][k] # None /\ cpu_current[u][k] # cpu_last_stats[k]

(***************************************************************************)
(* Properties of the shared state of FilesysCollector                      *)
(***************************************************************************)

\* The scrapes at a statement that reads stuck_mounts (the test of the submit
\* loop) or writes it (the assignment of the timeout handler).
FsAccessing == {t \in Threads : fs_pc[t] \in {"check", "record"}}

\* C23: every read and every write of stuck_mounts is made by a scrape that
\* holds stuck_lock, so no two scrapes are at the registry at the same time, and
\* the registry only changes in a step of the lock's holder.
C23_RegistryOnlyUnderLock ==
    /\ [](\A t \in FsAccessing : stuck_lock = t /\ FsAccessing = {t})
    /\ [][stuck_mounts' # stuck_mounts =>
             \E t \in Threads : stuck_lock = t /\ fs_pc[t] = "record" /\ fs_pc'[t] = "wait"]_vars

\* One scrape is writing a timeout into the registry while the other one, which
\* also timed out, waits for the lock.
C23_Witness ==
    \E t, u \in Threads :
        /\ fs_pc[t] = "record"
        /\ stuck_lock = t
        /\ fs_pc[u] = "timedout"

\* C24 as stated: the registry belongs to the collector instance.  With two
\* FilesysCollector instances, the second one's first scrape (scrape t2) finds
\* nothing quarantined, whatever the first one's scrape (t1) recorded: every
\* mount its submit loop has passed got a probe.
C24_TimeoutStaysInItsInstance ==
    \A m \in Mountpoints : Visited("t2", m) => FuturesOf("t2", m) # {}

(***************************************************************************)
(* Properties of the probe pool                                            *)
(***************************************************************************)

\* The submitted calls of scrape t a pool worker is executing.
Executing(t) == {i \in 1..Len(fs_futures[t]) : fs_futures[t][i].st \in {"running", "hung"}}

\* C25: within one filesystem scrape, every mount of the mount table that was not
\* quarantined when the scrape began is submitted to the pool once the submit
\* loop is over, and at no moment are more than STAT_WORKERS of the scrape's
\* calls executing, however many mounts there are.
C25_PoolIsBounded ==
    \A t \in Threads :
        /\ Cardinality(Executing(t)) <= STAT_WORKERS
        /\ fs_pc[t] \in {"wait", "waiting", "timedout", "record", "shutdown", "yield"} =>
              \A i \in 1..Len(fs_mounts[t]) :
                  ~QuarantinedAtStart(t, fs_mounts[t][i]) => FuturesOf(t, fs_mounts[t][i]) # {}

\* All five mounts were submitted, the pool's four workers are all executing a
\* call, one of them for longer than the timeout, and the fifth call is still
\* queued behind them.
C25_Witness ==
    \E t \in Threads :
        /\ Len(fs_futures[t]) > STAT_WORKERS
        /\ Cardinality(Executing(t)) = STAT_WORKERS
        /\ \E i \in 1..Len(fs_futures[t]) : fs_futures[t][i].st = "queued"
        /\ \E i \in Executing(t) : clock - fs_futures[t][i].started > STAT_TIMEOUT

\* Call i of scrape t has overrun: the wait for its result was given up (the
\* timeout handler ran for its mount) and the call has not ended.
Overrun(t, i) ==
    /\ "Timeout" \in OutcomesOf(t, fs_futures[t][i].m)
    /\ ~Finished(fs_futures[t][i])

\* C26: a call that overran its timeout is never cancelled or taken out of the
\* pool: it stays submitted, is started if it was still queued, and runs until
\* os.statvfs itself ends.  Its late end is discarded: the step in which it ends
\* adds no sample and does not touch the registry, and the mount keeps the
\* outcome of the timeout (no size sample, device_error 1, a registry entry).
C26_OverrunProbeRunsOnAndIsDiscarded ==
    /\ [][\A t \in Threads : \A i \in 1..Len(fs_futures[t]) :
            Overrun(t, i) =>
               /\ i <= Len(fs_futures'[t])
               /\ fs_futures'[t][i].m = fs_futures[t][i].m
               /\ \/ fs_futures'[t][i] = fs_futures[t][i]
                  \/ /\ fs_futures[t][i].st = "queued"
                     /\ fs_futures'[t][i].st \in {"running", "hung"}
                  \/ /\ fs_futures[t][i].st = "running"
                     /\ clock = fs_futures[t][i].ends
                     /\ Finished(fs_futures'[t][i])
                     /\ fs_size'[t] = fs_size[t]
                     /\ fs_device_error'[t] = fs_device_error[t]
                     /\ fs_results'[t] = fs_results[t]
                     /\ stuck_mounts' = stuck_mounts
       ]_vars
    /\ [](\A t \in Threads : \A m \in Mountpoints :
             "Timeout" \in OutcomesOf(t, m) =>
                /\ m \notin SizedBy(t)
                /\ ErrorValuesOf(t, m) = {1}
                /\ stuck_mounts[m] # None)

\* A call that returned its stats after the wait for it had been given up: the
\* scrape is over but for its yields, and the mount has the timeout's outcome.
C26_Witness ==
    \E t \in Threads : \E i \in 1..Len(fs_futures[t]) :
        /\ fs_pc[t] = "yield"
        /\ fs_futures[t][i].st = "returned"
        /\ OutcomesOf(t, fs_futures[t][i].m) = {"Timeout"}
        /\ \E j \in 1..Len(fs_futures[t]) :
              fs_futures[t][j].started > fs_futures[t][i].started

\* The step in which scrape t calls result(timeout=STAT_TIMEOUT) on a future.
FsResultCallOn(t) == fs_pc[t] = "wait" /\ fs_pc'[t] = "waiting"

\* C27: the scrape waits for each submitted call with a budget of its own: a
\* wait begun at time c is given up at c + STAT_TIMEOUT, whatever the earlier
\* waits of the result loop took, and no wait lasts longer than STAT_TIMEOUT.
C27_EachWaitHasItsOwnBudget ==
    /\ [][\A t \in Threads : FsResultCallOn(t) => fs_deadline'[t] = clock + STAT_TIMEOUT]_vars
    /\ [](\A t \in Threads :
             fs_pc[t] = "waiting" =>
                /\ fs_deadline[t] - STAT_TIMEOUT >= fs_phase[t][1]
                /\ clock >= fs_deadline[t] - STAT_TIMEOUT
                /\ clock <= fs_deadline[t])

\* The scrape is still waiting for its second call, which has not ended, later
\* than STAT_TIMEOUT after the result loop began: the first wait used up one
\* whole budget and the second wait has not been cut short by it.
C27_Witness ==
    \E t \in Threads :
        /\ fs_pc[t] = "waiting"
        /\ fs_idx[t] = 2
        /\ ~Finished(fs_futures[t][2])
        /\ OutcomesOf(t, fs_futures[t][1].m) = {"Timeout"}
        /\ clock > fs_phase[t][1] + STAT_TIMEOUT
        /\ clock < fs_deadline[t]

(***************************************************************************)
(* Properties of the failure paths and of the stores                       *)
(***************************************************************************)

\* Scrape t is in a collect() whose source could not be opened, from the step
\* in which open() raises to the step in which the caller has the exception.
OpenFailed(pc, t) == (pc[t] = "idle" /\ pc'[t] = "raising") \/ pc[t] = "raising"

\* C28: when open() of a collector's source raises (/proc/stat, /proc/net/dev,
\* /proc/meminfo, /proc/self/mountinfo), collect() goes straight to its caller
\* with the exception: it never reaches its yields, its families hold no
\* sample, and the store or registry of the collector stays as it was.
C28_OpenFailureRaisesAndKeepsState ==
    [][\A t \in Threads :
          /\ OpenFailed(cpu_pc, t) =>
                /\ cpu_pc'[t] \in {"raising", "idle"}
                /\ cpu_metric'[t] = <<>>
                /\ cpu_last_stats' = cpu_last_stats
                /\ cpu_exposed' = cpu_exposed
          /\ OpenFailed(net_pc, t) =>
                /\ net_pc'[t] \in {"raising", "idle"}
                /\ net_metric'[t] = {}
                /\ net_last_stats' = net_last_stats
                /\ net_last_carrier' = net_last_carrier
                /\ net_exposed' = net_exposed
          /\ (mem_pc[t] = "idle" /\ mem_pc'[t] = "raising") =>
                /\ mem_metric'[t] = {}
                /\ mem_last_stats' = mem_last_stats
          /\ mem_pc[t] = "raising" =>
                /\ mem_pc'[t] \in {"raising", "idle"}
                /\ mem_last_stats' = mem_last_stats
          /\ OpenFailed(fs_pc, t) =>
                /\ fs_pc'[t] \in {"raising", "idle"}
                /\ fs_size'[t] = <<>>
                /\ fs_device_error'[t] = <<>>
                /\ fs_futures'[t] = <<>>
                /\ stuck_mounts' = stuck_mounts
      ]_vars

\* /proc/stat cannot be opened in a scrape that follows one which filled the
\* store and published a value.
C28_Witness ==
    \E t \in Threads : \E k \in CpuKeys :
        /\ cpu_pc[t] = "raising"
        /\ cpu_last_stats[k] # None
        /\ cpu_exposed[k] # None

\* C29: nothing is ever taken out of the previous-value stores or of the
\* registry: a key CpuCollector._last_stats, NetworkCollector._last_stats,
\* NetworkCollector._last_carrier or stuck_mounts holds is still held after
\* every step, whether its resource disappeared from the source, its cool-down
\* expired or its mount was probed successfully again.
C29_StoresNeverShrink ==
    [][ /\ \A k \in CpuKeys : cpu_last_stats[k] # None => cpu_last_stats'[k] # None
        /\ \A k \in NetKeys : net_last_stats[k] # None => net_last_stats'[k] # None
        /\ \A d \in Devices : net_last_carrier[d] # None => net_last_carrier'[d] # None
        /\ \A m \in Mountpoints : stuck_mounts[m] # None => stuck_mounts'[m] # None
      ]_vars

\* A mount whose cool-down had expired when the scrape began was probed with
\* success, and the registry still holds the time of its old timeout.
C29_Witness ==
    \E t \in Threads : \E m \in Mountpoints :
        /\ OutcomesOf(t, m) = {"Success"}
        /\ stuck_mounts[m] # None
        /\ fs_now[t] - stuck_mounts[m] >= STUCK_TTL

(***************************************************************************)
(* Properties of the gauges of NetworkCollector                            *)
(***************************************************************************)

\* The samples scrape t added to the family of key k for the device of k.
NetSamplesFor(t, k) == {s \in net_metric[t] : s.family = k[2] /\ s.device = k[1]}

\* C30: the gauges of NetworkCollector are not guarded: for every gauge key the
\* scrape has a reading for, the one sample it publishes carries that reading,
\* also when it is lower than the value published in the scrape before.
C30_GaugeIsPublishedAsRead ==
    \A t \in Threads :
        net_pc[t] = "yield" =>
            \A k \in NetGaugeKeys :
                net_current[t][k] # None =>
                    NetSamplesFor(t, k) =
                        {[family |-> k[2], device |-> k[1], value |-> net_current[t][k]]}

\* The scrape read carrier 0 for a device whose carrier it published as 1 in
\* the scrape before (it counted a carrier-down change), and published 0.
C30_Witness ==
    \E t \in Threads : \E d \in Devices :
        /\ net_pc[t] = "yield"
        /\ net_current[t][<<d, "carrier">>] = 0
        /\ NetSamplesFor(t, <<d, "carrier_down_changes">>) # {}
        /\ NetSamplesFor(t, <<d, "carrier_up_changes">>) = {}
        /\ [family |-> "carrier", device |-> d, value |-> 0] \in net_metric[t]

(***************************************************************************)
(* Properties of the probe pool under hung calls and overlapping scrapes   *)
(***************************************************************************)

\* C31 as stated: a mount is reported Timeout (and written into the registry)
\* only if its own call of statfs_call was started by a pool worker; a mount
\* whose call is still queued behind hung calls of other mounts is not.
C31_TimeoutOnlyForStartedProbe ==
    \A t \in Threads : \A i \in 1..Len(fs_futures[t]) :
        "Timeout" \in OutcomesOf(t, fs_futures[t][i].m) =>
            /\ fs_futures[t][i].st # "queued"
            /\ fs_futures[t][i].started # None

\* The step in which a pool worker of scrape t starts call i.
FsProbeStartOn(t, i) ==
    /\ i <= Len(fs_futures[t])
    /\ fs_futures[t][i].st = "queued"
    /\ i <= Len(fs_futures'[t])
    /\ fs_futures'[t][i].st \in {"running", "hung"}

\* C32 as stated: with overlapping scrapes, once a timeout of a mount has been
\* recorded at t0, no scrape starts a call of statfs_call for the mount before
\* t0 + STUCK_TTL, also not a scrape that tested the registry before t0.
C32_NoProbeStartsDuringCoolDown ==
    [][\A t \in Threads : \A i \in 1..Len(fs_futures[t]) :
          FsProbeStartOn(t, i) =>
             LET m == fs_futures[t][i].m
             IN ~(stuck_mounts[m] # None /\ clock - stuck_mounts[m] < STUCK_TTL)
      ]_vars

(***************************************************************************)
(* Properties of the counter guard under overlapping scrapes               *)
(***************************************************************************)

\* C33: when scrapes of one CpuCollector overlap, the values published for a
\* key, taken in the order in which the scrapes hold the lock, never decrease:
\* every value a guard pass publishes is at least the value the pass before it
\* (of whichever scrape) published for the key, and at least its own reading.
C33_PublishedInLockOrderNeverDecreases ==
    [][\A t \in Threads : \A k \in CpuKeys :
          CpuGuardOn(t, k) =>
             /\ cpu_exposed'[k] >= cpu_exposed[k]
             /\ cpu_exposed'[k] >= cpu_current[t][k]
             /\ CpuAdded(t, k, cpu_exposed'[k])
      ]_vars

\* A scrape that read a smaller value than the one the other scrape has
\* published in the meantime holds the lock and has published the larger one.
C33_Witness ==
    \E t, u \in Threads : \E k \in CpuKeys :
        /\ t # u
        /\ cpu_pc[u] = "yield"
        /\ cpu_pc[t] = "locked"
        /\ cpu_current[u][k] # None
        /\ cpu_current[t][k] # None
        /\ cpu_current[t][k] < cpu_current[u][k]
        /\ \E i \in 1..Len(cpu_metric[t]) :
              cpu_metric[t][i] = [key |-> k, value |-> cpu_current[u][k]]

\* C34: for every key of CpuCollector a guard pass has seen, the value the
\* latest pass published for it and the value the store holds both equal the
\* largest raw value read for the key so far; so after a counter reset the
\* published value stays where it was until the raw counter is back there.
C34_PublishedAndStoredAreRunningMaximum ==
    \A k \in CpuKeys :
        /\ cpu_max[k] = None <=> cpu_last_stats[k] = None
        /\ cpu_last_stats[k] = cpu_max[k]
        /\ cpu_exposed[k] = cpu_max[k]

\* The raw counter of a key was reset and has not yet climbed back: two passes
\* in a row read less than the largest value, which is still what was published.
C34_Witness ==
    \E k \in CpuKeys :
        /\ cpu_prev_raw[k] # None
        /\ cpu_prev_raw[k] < cpu_max[k]
        /\ cpu_raw[k] < cpu_max[k]
        /\ cpu_raw[k] > cpu_prev_raw[k]
        /\ cpu_exposed[k] = cpu_max[k]

(***************************************************************************)
(* Properties of the locks                                                 *)
(***************************************************************************)

\* C35: no lock is held while a scrape can block.  stuck_lock is held only at
\* the registry test of the submit loop and at the registry write of the
\* timeout handler, never at executor.submit, in future.result or in the
\* pool's shutdown; the locks of CpuCollector and NetworkCollector are held
\* only inside their locked blocks, after the files were read; a scrape that
\* is done, or that raised, holds no lock, so a scrape that waits for a hung
\* call keeps no other scrape from the registry.
C35_NoLockHeldWhileBlocked ==
    \A t \in Threads :
        /\ stuck_lock = t <=> fs_pc[t] \in {"check", "record"}
        /\ cpu_lock = t <=> cpu_pc[t] = "locked"
        /\ net_lock = t <=> net_pc[t] = "locked"

\* One scrape waits in future.result for a call that hangs and is past its
\* timeout's half, while the other scrape holds stuck_lock for a registry test.
C35_Witness ==
    \E t, u \in Threads :
        /\ fs_pc[t] = "waiting"
        /\ fs_futures[t][fs_idx[t]].st = "hung"
        /\ clock > fs_futures[t][fs_idx[t]].started
        /\ fs_pc[u] = "check"
        /\ stuck_lock = u

(***************************************************************************)
(* Properties of the carrier counters                                      *)
(***************************************************************************)

\* C36: the carrier counters NetworkCollector stores for a device are set
\* together, to 0, by the first pass that sees the device; from then on
\* carrier_changes = carrier_up_changes + carrier_down_changes, carrier_changes
\* is the number of consecutive passes (in lock order) whose carrier reading
\* differed, and none of the three ever decreases.
C36_CarrierCountersAddUp ==
    /\ [](\A d \in Devices :
             LET changes == net_last_stats[<<d, "carrier_changes">>]
                 up == net_last_stats[<<d, "carrier_up_changes">>]
                 down == net_last_stats[<<d, "carrier_down_changes">>]
             IN IF net_last_carrier[d] = None
                THEN changes = None /\ up = None /\ down = None
                ELSE /\ changes = up + down
                     /\ changes = net_flips[d]
                     /\ up >= 0 /\ down >= 0)
    /\ [][\A d \in Devices : \A f \in CarrierFields :
             /\ net_last_stats[<<d, f>>] # None =>
                    net_last_stats'[<<d, f>>] >= net_last_stats[<<d, f>>]
             /\ net_last_carrier[d] = None /\ net_last_carrier'[d] # None =>
                    net_last_stats'[<<d, f>>] = 0]_vars

\* A device whose carrier went one way and then the other: two changes, one
\* up and one down.
C36_Witness ==
    \E d \in Devices :
        /\ net_last_stats[<<d, "carrier_changes">>] = 2
        /\ net_last_stats[<<d, "carrier_up_changes">>] = 1
        /\ net_last_stats[<<d, "carrier_down_changes">>] = 1
        /\ net_flips[d] = 2

\* C37: in every scrape each of the three carrier families holds exactly one
\* sample for every device the scrape saw, whichever branch of the block the
\* device took.
C37_EveryCarrierFamilyHasEveryDevice ==
    \A t \in Threads :
        net_pc[t] = "yield" =>
            \A d \in net_devices[t] : \A f \in CarrierFields :
                Cardinality({s \in net_metric[t] : s.family = f /\ s.device = d}) = 1

(***************************************************************************)
(* Properties of MemCollector                                              *)
(***************************************************************************)

\* C38: a scrape of MemCollector that fails on a missing field raises without
\* a yield, frees the lock and leaves _last_stats exactly as the scrape found
\* it.
C38_MissingFieldLeavesStoreUntouched ==
    [][\A t \in Threads :
          mem_pc[t] = "locked" /\ mem_pc'[t] = "raising" =>
             /\ mem_last_stats' = mem_last_stats
             /\ mem_lock' = "free"]_vars

(***************************************************************************)
(* Properties of CombinedHTTPHandler                                       *)
(***************************************************************************)

\* The status codes sent for the request, in order.
Statuses ==
    LET lines == SelectSeq(http_wire, LAMBDA x : x.kind = "status")
    IN [i \in 1..Len(lines) |-> lines[i].code]

\* C39: do_GET answers a request with exactly one status: /metrics with 200
\* and the memory and network metrics, or with 500 when generating them
\* raised; / with 200; any other path with 404; and no 500 follows a 200.
C39_ExactlyOneStatusPerRequest ==
    /\ Len(Statuses) <= 1
    /\ http_pc = "done" =>
          /\ Len(Statuses) = 1
          /\ http_request.path = "/" => Statuses = <<200>>
          /\ http_request.path \notin {"/", "/metrics"} => Statuses = <<404>>
          /\ http_request.path = "/metrics" => Statuses \in {<<200>>, <<500>>}

\* C40: when get_net_dev_stats returns an error, the network generator
\* returns the empty string and raises nothing: the first status sent for the
\* /metrics request is 200 and its body is the memory metrics alone, with no
\* line of the network subsystem.  When the read succeeds the network output
\* ends with the sample of node_exporter_info.
C40_NetworkFailureYieldsMemoryOnly ==
    LET generated == \/ http_pc = "send"
                     \/ /\ http_request.path = "/metrics"
                        /\ http_wire # <<>>
                        /\ http_wire[1] = StatusLine(200)
    IN /\ generated /\ http_net_err =>
             /\ http_network = <<>>
             /\ http_metrics = MemoryMetrics(http_meminfo)
       /\ generated /\ ~http_net_err =>
             /\ http_network # <<>>
             /\ http_network[Len(http_network)] = ExporterInfo[3]
       /\ http_request.path = "/metrics" /\ http_net_err /\ http_pc \in {"except", "done"} =>
             /\ http_wire[1] = StatusLine(200)
             /\ http_wire[2] = Body(MemoryMetrics(http_meminfo))
             /\ \A i \in 1..Len(http_wire[2].lines) :
                    http_wire[2].lines[i].name[2] # "network"

\* A /metrics request answered while the network statistics could not be read
\* and /proc/meminfo had two lines.
C40_Witness ==
    /\ http_pc = "done"
    /\ http_request.path = "/metrics"
    /\ http_net_err
    /\ Len(http_meminfo) = 2
    /\ Statuses = <<200>>

====
